---- MODULE Spec2Model ----
(***************************************************************************)
(* A model of the ministry question-answering repository:                  *)
(*   - AzureVectorStore (src/src/azure_vector_store.py): the documents    *)
(*     table, the in-memory set indexed_ministries and the public store    *)
(*     operations;                                                         *)
(*   - LLMClient (src/src/llm_client.py): one answer request, from its     *)
(*     entry point to the string it returns;                               *)
(*   - DocumentProcessor.chunk_text (src/src/document_processor.py) and    *)
(*     the chunk documents built from its result;                          *)
(*   - SansadClient.ingest (src/sansad_client.py) and the change monitor   *)
(*     (src/adding_new_pdfs.py).                                           *)
(* The specifications of the module: Spec (the store), SpecLLM and         *)
(* SpecLLMFair (the generator), SpecChunk (the segmenter), SpecSession     *)
(* (the retry loop of one store operation, step by step), SpecIngest       *)
(* (SansadClient.ingest run by two processes), SpecReingest (ingest run    *)
(* again and again by one process), SpecPool (the executor of the model    *)
(* calls) and SpecMonitor (the change monitor).  Each leaves the variables *)
(* of the others at their initial values.                                  *)
(*                                                                         *)
(* Conventions.  A text is a sequence of natural numbers (tokens); token   *)
(* WS is a whitespace character.  A distance and a relevance score are     *)
(* fixed-point numbers in hundredths (Scale = 1.00).  Python's None is the *)
(* string None for a ministry and the empty tuple NoId for a missing "id". *)
(***************************************************************************)
EXTENDS Integers, Sequences, FiniteSets, TLC

VARIABLES
    table,               \* the documents table: id -> row
    indexed_ministries,  \* AzureVectorStore.indexed_ministries
    last,                \* the last store operation: its arguments and outcome
    req,                 \* the answer request in progress (LLMClient)
    seg,                 \* the segmenter run (DocumentProcessor.chunk_text)
    sess,                \* one run of AzureVectorStore._safe_session_operation
    ing,                 \* the ingesting processes and the table they share
    pool,                \* LLMClient.executor: its queue and its workers
    mon                  \* the change monitor (adding_new_pdfs.main) and its state file

vars == <<table, indexed_ministries, last, req, seg, sess, ing, pool, mon>>
storeVars == <<table, indexed_ministries, last>>

(***************************************************************************)
(* Generic helpers.                                                        *)
(***************************************************************************)
Max(a, b) == IF a >= b THEN a ELSE b
Min(a, b) == IF a <= b THEN a ELSE b
Abs(a) == IF a >= 0 THEN a ELSE 0 - a

\* Tokens: a space, a paragraph break ("\n\n"); every other token is a word.
WS == 0
PARA == 1
isspace(c) == c = WS \/ c = PARA

RECURSIVE lstrip(_)
lstrip(t) == IF t # <<>> /\ isspace(Head(t)) THEN lstrip(Tail(t)) ELSE t

RECURSIVE rstrip(_)
rstrip(t) ==
    IF t # <<>> /\ isspace(t[Len(t)]) THEN rstrip(SubSeq(t, 1, Len(t) - 1)) ELSE t

\* str.strip(): leading and trailing whitespace removed
strip(t) == rstrip(lstrip(t))

(***************************************************************************)
(* AzureVectorStore                                                        *)
(***************************************************************************)
None == "None"
NoId == <<>>
Ministries == {"Finance", "Education"}
MinistryArgs == Ministries \cup {None}

\* add_documents: batch_size=10
BatchSize == 10
\* _safe_session_operation: max_retries=3
max_retries == 3
\* fixed point: 100 hundredths = 1.0
Scale == 100

\* SentenceTransformer.encode, one coordinate: the text's tokens decide it
Embed(text) == IF text = <<>> THEN 0 ELSE text[1] % 100

\* f"doc_{datetime.now().timestamp()}_{added_count}": no two calls of
\* datetime.now() give the same value, so stamp numbers the call
generated_id(stamp, added_count) == <<"doc", stamp * 100 + added_count>>

\* pgvector's <-> (L2 distance), in hundredths
Distance(e1, e2) == Abs(e1 - e2) * 10

\* relevance_score with the clamp at zero left out
relevance_score_unclamped(distance) == Scale - distance

\* "relevance_score": max(0, 1.0 - float(row.distance))
relevance_score(distance) == Max(0, Scale - distance)

\* create_embedding raises ValueError on empty or whitespace-only text
create_embedding_raises(text) == strip(text) = <<>>
create_embedding(text) == Embed(strip(text))

\* _safe_session_operation: the unit of work is executed until an attempt
\* commits, at most max_retries times; nfail is the number of attempts that
\* fail before one would commit.  TRUE: committed, FALSE: raised.
safe_session_commits(nfail) == nfail < max_retries

\* id=doc.get("id", f"doc_{datetime.now().timestamp()}_{added_count}")
stored_id(doc, stamp, added_count) ==
    IF doc.id # NoId THEN doc.id ELSE generated_id(stamp, added_count)

\* The tag taken from the ministry argument alone
row_ministry_argument(ministry, doc) == ministry

\* ministry=ministry or doc.get("metadata", {}).get("ministry")
row_ministry(ministry, doc) ==
    IF ministry # None THEN ministry ELSE doc.metadata.ministry

\* INSERT with no primary key to stop it: a second row of the same id is
\* kept beside the first (its key is the id with a copy number added).
merge_insert(tbl, id, row) ==
    LET key == IF id \in DOMAIN tbl
               THEN <<id[1], id[2] + 1000 * Cardinality(DOMAIN tbl)>> ELSE id
    IN [k \in (DOMAIN tbl) \cup {key} |-> IF k = key THEN row ELSE tbl[k]]

\* session.merge(db_doc): insert, or replace the row of the same primary key
merge(tbl, id, row) ==
    [k \in (DOMAIN tbl) \cup {id} |-> IF k = id THEN row ELSE tbl[k]]

\* batch_operation with a skipped document ending the loop over the batch
RECURSIVE batch_operation_break(_, _, _, _, _, _, _)
batch_operation_break(tbl, batch, ministry, pos, embedFail, stamp, added_count) ==
    IF batch = <<>> THEN [tbl |-> tbl, added |-> added_count]
    ELSE LET doc == Head(batch)
             text == strip(doc.text)
         IN IF text = <<>> \/ pos \in embedFail
            THEN [tbl |-> tbl, added |-> added_count]
            ELSE batch_operation_break(
                     merge(tbl, stored_id(doc, stamp, added_count),
                           [text |-> text,
                            embedding |-> create_embedding(text),
                            doc_metadata |-> doc.metadata,
                            ministry |-> row_ministry(ministry, doc)]),
                     Tail(batch), ministry, pos + 1, embedFail, stamp,
                     added_count + 1)

\* batch_operation(session): the rows merged by one attempt and added_count.
\* pos is the position in documents of the batch's first document; embedFail
\* is the set of positions whose embedding computation raises.
RECURSIVE batch_operation(_, _, _, _, _, _, _)
batch_operation(tbl, batch, ministry, pos, embedFail, stamp, added_count) ==
    IF batch = <<>> THEN [tbl |-> tbl, added |-> added_count]
    ELSE LET doc == Head(batch)
             text == strip(doc.text)
         IN IF text = <<>> \/ pos \in embedFail
            THEN batch_operation(tbl, Tail(batch), ministry, pos + 1,
                                 embedFail, stamp, added_count)
            ELSE batch_operation(
                     merge(tbl, stored_id(doc, stamp, added_count),
                           [text |-> text,
                            embedding |-> create_embedding(text),
                            doc_metadata |-> doc.metadata,
                            ministry |-> row_ministry(ministry, doc)]),
                     Tail(batch), ministry, pos + 1, embedFail, stamp,
                     added_count + 1)

NumBatches(n, batch_size) == (n + batch_size - 1) \div batch_size

\* The loop with a failed batch's error left to propagate: the call ends at
\* the first batch that fails.
RECURSIVE add_batches_abort(_, _, _, _, _, _, _, _)
add_batches_abort(tbl, documents, ministry, batch_size, b, nfail, embedFail, total_added) ==
    IF (b - 1) * batch_size >= Len(documents)
    THEN [tbl |-> tbl, total_added |-> total_added]
    ELSE LET i == (b - 1) * batch_size
             batch == SubSeq(documents, i + 1,
                             Min(i + batch_size, Len(documents)))
             r == batch_operation(tbl, batch, ministry, i + 1, embedFail, b, 0)
         IN IF safe_session_commits(nfail[b])
            THEN add_batches_abort(r.tbl, documents, ministry, batch_size, b + 1,
                                   nfail, embedFail, total_added + r.added)
            ELSE [tbl |-> tbl, total_added |-> total_added]

\* The loop of add_documents_batch from batch b on: each batch is one
\* _safe_session_operation; a batch that raises is logged and skipped.
RECURSIVE add_batches(_, _, _, _, _, _, _, _)
add_batches(tbl, documents, ministry, batch_size, b, nfail, embedFail, total_added) ==
    IF (b - 1) * batch_size >= Len(documents)
    THEN [tbl |-> tbl, total_added |-> total_added]
    ELSE LET i == (b - 1) * batch_size
             batch == SubSeq(documents, i + 1,
                             Min(i + batch_size, Len(documents)))
             r == batch_operation(tbl, batch, ministry, i + 1, embedFail, b, 0)
         IN IF safe_session_commits(nfail[b])
            THEN add_batches(r.tbl, documents, ministry, batch_size, b + 1,
                             nfail, embedFail, total_added + r.added)
            ELSE add_batches(tbl, documents, ministry, batch_size, b + 1,
                             nfail, embedFail, total_added)

\* add_documents_batch up to its return value
add_documents_batch(tbl, documents, ministry, batch_size, nfail, embedFail) ==
    IF documents = <<>> THEN [tbl |-> tbl, total_added |-> 0]
    ELSE add_batches(tbl, documents, ministry, batch_size, 1, nfail, embedFail, 0)

\* if ministry and total_added > 0: self.indexed_ministries.add(ministry)
index_after_add(indexed, ministry, total_added) ==
    IF ministry # None /\ total_added > 0
    THEN indexed \cup {ministry} ELSE indexed

\* The scan with its WHERE clause dropped: every row is a candidate.
rows_unscoped(tbl, ministry) == DOMAIN tbl

\* WHERE ministry = :ministry (a NULL ministry equals nothing)
rows_of_ministry(tbl, ministry) ==
    {id \in DOMAIN tbl : ministry # None /\ tbl[id].ministry = ministry}

\* The scan with its ORDER BY dropped: any rows, in any order.
RECURSIVE nearest_unordered(_, _, _, _)
nearest_unordered(tbl, ids, qe, k) ==
    IF k = 0 \/ ids = {} THEN {<<>>}
    ELSE UNION {{<<x>> \o rest : rest \in nearest_unordered(tbl, ids \ {x}, qe, k - 1)} : x \in ids}

\* ORDER BY embedding <-> :query_embedding LIMIT :limit.  Rows at the same
\* distance come in an order the database chooses: every order is possible.
RECURSIVE nearest(_, _, _, _)
nearest(tbl, ids, qe, k) ==
    IF k = 0 \/ ids = {} THEN {<<>>}
    ELSE LET closest == {x \in ids : \A y \in ids :
                            Distance(tbl[x].embedding, qe) <= Distance(tbl[y].embedding, qe)}
         IN UNION {{<<x>> \o rest : rest \in nearest(tbl, ids \ {x}, qe, k - 1)} : x \in closest}

\* One element of documents in search_operation
search_result(tbl, id, qe) ==
    [id |-> id,
     text |-> tbl[id].text,
     metadata |-> tbl[id].doc_metadata,
     ministry |-> tbl[id].ministry,
     distance |-> Distance(tbl[id].embedding, qe),
     relevance_score |-> relevance_score(Distance(tbl[id].embedding, qe))]

\* The sessions search_by_text opens, one per attempt of its
\* _safe_session_operation, none for a blank query; search_operation
\* computes the query embedding once in each.
search_sessions(query, nfail) ==
    IF query = <<>> \/ strip(query) = <<>> THEN 0
    ELSE IF nfail < max_retries THEN nfail + 1
    ELSE max_retries

\* search_by_text: the lists it can return.  nfail is the number of failing
\* attempts of its _safe_session_operation.
search_by_text_returns(tbl, query, ministry, n_results, nfail) ==
    IF query = <<>> \/ strip(query) = <<>> THEN {<<>>}
    ELSE IF ~safe_session_commits(nfail) THEN {<<>>}
    ELSE LET qe == create_embedding(strip(query))
         IN {[i \in 1..Len(ids) |-> search_result(tbl, ids[i], qe)] :
                ids \in nearest(tbl, rows_of_ministry(tbl, ministry), qe, n_results)}

\* SELECT COUNT(*) FROM documents WHERE ministry = :ministry
count_operation(tbl, ministry) == Cardinality(rows_of_ministry(tbl, ministry))

\* The DELETE with its WHERE clause dropped
clear_operation_all(tbl, ministry) == [id \in {} |-> 0]

\* DELETE FROM documents WHERE ministry = :ministry
clear_operation(tbl, ministry) ==
    [id \in (DOMAIN tbl) \ rows_of_ministry(tbl, ministry) |-> tbl[id]]

\* SELECT DISTINCT ministry FROM documents WHERE ministry IS NOT NULL
distinct_ministries(tbl) == {tbl[id].ministry : id \in DOMAIN tbl} \ {None}

EmptyTable == [id \in {} |-> 0]

(***************************************************************************)
(* The inputs of the store operations.                                     *)
(***************************************************************************)
SourceBase(source) == IF source = "q1.pdf" THEN 0 ELSE 50

\* The largest n_results of a search.
MaxResults == 2

\* The document of chunk i of a source, as process_pdf_from_bytes and
\* process_local_pdf build it: id f"{filename}_chunk_{i}".  The first
\* chunk's text carries trailing whitespace.
MkDoc(source, i, blank, metaMinistry, hasId) ==
    [id |-> IF hasId THEN <<source, i>> ELSE NoId,
     text |-> IF blank = "all" THEN <<>>
              ELSE IF i = 0 /\ blank = "first" THEN <<WS>>
              ELSE IF i = 0 THEN <<SourceBase(source) + 2, WS>>
              ELSE <<SourceBase(source) + i + 2>>,
     metadata |-> [source |-> source, ministry |-> metaMinistry, chunk_index |-> i]]

\* A document list, named by what decides it (d): source, length n, which
\* texts are blank, the ministry of the metadata, whether "id" is present.
Docs(d) == [k \in 1..d.n |-> MkDoc(d.source, k - 1, d.blank, d.meta, d.hasId)]

DocSet(source, n, blank, meta, hasId) ==
    [source |-> source, n |-> n, blank |-> blank, meta |-> meta, hasId |-> hasId]

\* The lists handed to add_documents: empty, one chunk, and one chunk more
\* than a batch with no, one or only blank texts.  Every list carries ids,
\* as every document builder of the repository gives them.
DocSets(meta) ==
    {DocSet("q1.pdf", 0, "none", meta, TRUE),
     DocSet("q1.pdf", 1, "none", meta, TRUE),
     DocSet("q1.pdf", BatchSize + 1, "none", meta, TRUE),
     DocSet("q1.pdf", BatchSize + 1, "first", meta, TRUE),
     DocSet("q1.pdf", BatchSize + 1, "all", meta, TRUE)}

AllCommit(d) == [b \in 1..NumBatches(d.n, BatchSize) |-> 0]

\* What the environment does to one call: per batch the number of attempts
\* that fail before one commits (none, or all max_retries of them), and the
\* positions whose embedding computation raises.
Environments(d) ==
    IF d.blank # "none" \/ d.n = 0 THEN {[nfail |-> AllCommit(d), embedFail |-> {}]}
    ELSE {[nfail |-> f, embedFail |-> {}] : f \in [1..NumBatches(d.n, BatchSize) -> {0, max_retries}]}
         \cup {[nfail |-> AllCommit(d), embedFail |-> {1}]}

\* (ministry argument, ministry of the metadata): documents built for a
\* ministry and added for it, or, the lists of at most one chunk, added
\* with no ministry argument.
AddInputs ==
    UNION {{[docs |-> d, ministry |-> m] : d \in DocSets(m)} : m \in Ministries}
    \cup {[docs |-> d, ministry |-> None] :
             d \in {x \in DocSets("Finance") \cup DocSets(None) : x.n <= 1}}

HasIds(documents) == \A k \in 1..Len(documents) : documents[k].id # NoId

Queries == {<<4>>, <<WS, 13>>}

\* The searches: a query for a ministry with a limit; a blank query; a
\* search whose session fails on every attempt; one with no ministry.
SearchInputs ==
    {[query |-> q, ministry |-> m, n_results |-> k, nfail |-> 0] :
        q \in Queries, m \in Ministries, k \in 1..MaxResults}
    \cup {[query |-> q, ministry |-> "Finance", n_results |-> 1, nfail |-> 0] : q \in {<<>>, <<WS>>}}
    \cup {[query |-> <<4>>, ministry |-> "Finance", n_results |-> 1, nfail |-> max_retries],
          [query |-> <<4>>, ministry |-> None, n_results |-> 1, nfail |-> 0]}

\* The other operations: for each ministry, and once with a failing session.
MinistryInputs ==
    {[ministry |-> m, nfail |-> 0] : m \in MinistryArgs}
    \cup {[ministry |-> "Finance", nfail |-> max_retries]}

FailedBatches(documents, nfail) ==
    {b \in 1..NumBatches(Len(documents), BatchSize) : ~safe_session_commits(nfail[b])}

\* History: the call repeats the call before it (the same documents for the
\* same ministry), which met no failure.
Repeats(in) ==
    /\ last.op = "add_documents"
    /\ last.docs = in.docs
    /\ last.ministry = in.ministry
    /\ last.failed = {}
    /\ last.embedFail = {}

NoOp ==
    [op |-> "init", ministry |-> None, docs |-> DocSet("q1.pdf", 0, "none", None, TRUE),
     failed |-> {}, embedFail |-> {},
     query |-> <<>>, n_results |-> 0, returned |-> 0, raised |-> FALSE, repeats |-> FALSE,
     sessions |-> 0, embeddings |-> 0]

(***************************************************************************)
(* The store after construction: __init__ finds the rows an earlier        *)
(* process left and loads indexed_ministries from them; when the load      *)
(* fails on every attempt the set stays empty.                             *)
(***************************************************************************)
InitTables ==
    {EmptyTable,
     add_documents_batch(EmptyTable, Docs(DocSet("q2.pdf", 1, "none", "Education", TRUE)),
                         "Education", BatchSize, <<0>>, {}).tbl}

load_indexed_ministries(tbl, nfail) ==
    IF nfail < max_retries THEN distinct_ministries(tbl) ELSE {}

InitStore ==
    /\ table \in InitTables
    /\ \E nfail \in {0, max_retries} : indexed_ministries = load_indexed_ministries(table, nfail)
    /\ last = NoOp

\* The store of a process that only answers or only segments: empty.
InitStoreIdle ==
    /\ table = EmptyTable
    /\ indexed_ministries = {}
    /\ last = NoOp

(***************************************************************************)
(* The public operations of the store.                                     *)
(***************************************************************************)
add_documents ==
    /\ UNCHANGED <<req, seg, sess, ing, pool, mon>>
    /\ \E in \in AddInputs :
         \E env \in Environments(in.docs) :
           LET r == add_documents_batch(table, Docs(in.docs), in.ministry, BatchSize, env.nfail, env.embedFail)
           IN /\ table' = r.tbl
              /\ indexed_ministries' = index_after_add(indexed_ministries, in.ministry, r.total_added)
              /\ last' = [NoOp EXCEPT !.op = "add_documents", !.ministry = in.ministry,
                                      !.docs = in.docs,
                                      !.failed = FailedBatches(Docs(in.docs), env.nfail),
                                      !.embedFail = env.embedFail,
                                      !.returned = r.total_added,
                                      !.repeats = Repeats(in)]

search_by_text ==
    /\ UNCHANGED <<req, seg, sess, ing, pool, mon>>
    /\ \E in \in SearchInputs :
         \E documents \in search_by_text_returns(table, in.query, in.ministry, in.n_results, in.nfail) :
           /\ last' = [NoOp EXCEPT !.op = "search_by_text", !.ministry = in.ministry,
                                   !.query = in.query, !.n_results = in.n_results,
                                   !.failed = IF in.nfail < max_retries THEN {} ELSE {1},
                                   !.sessions = search_sessions(in.query, in.nfail),
                                   !.embeddings = search_sessions(in.query, in.nfail),
                                   !.returned = documents]
           /\ UNCHANGED <<table, indexed_ministries>>

is_ministry_indexed ==
    /\ UNCHANGED <<req, seg, sess, ing, pool, mon>>
    /\ \E ministry \in MinistryArgs :
           /\ last' = [NoOp EXCEPT !.op = "is_ministry_indexed", !.ministry = ministry,
                                   !.returned = (ministry \in indexed_ministries)]
           /\ UNCHANGED <<table, indexed_ministries>>

get_ministry_document_count ==
    /\ UNCHANGED <<req, seg, sess, ing, pool, mon>>
    /\ \E in \in MinistryInputs :
           /\ last' = [NoOp EXCEPT !.op = "get_ministry_document_count", !.ministry = in.ministry,
                                   !.failed = IF in.nfail < max_retries THEN {} ELSE {1},
                                   !.returned = IF safe_session_commits(in.nfail)
                                                THEN count_operation(table, in.ministry) ELSE 0]
           /\ UNCHANGED <<table, indexed_ministries>>

clear_ministry_documents ==
    /\ UNCHANGED <<req, seg, sess, ing, pool, mon>>
    /\ \E in \in MinistryInputs :
           /\ IF safe_session_commits(in.nfail)
              THEN /\ table' = clear_operation(table, in.ministry)
                   /\ indexed_ministries' = indexed_ministries \ {in.ministry}
              ELSE UNCHANGED <<table, indexed_ministries>>
           /\ last' = [NoOp EXCEPT !.op = "clear_ministry_documents", !.ministry = in.ministry,
                                   !.failed = IF in.nfail < max_retries THEN {} ELSE {1},
                                   !.raised = ~safe_session_commits(in.nfail)]

clear_all ==
    /\ UNCHANGED <<req, seg, sess, ing, pool, mon>>
    /\ \E nfail \in {0, max_retries} :
           /\ IF safe_session_commits(nfail)
              THEN /\ table' = EmptyTable
                   /\ indexed_ministries' = {}
              ELSE UNCHANGED <<table, indexed_ministries>>
           /\ last' = [NoOp EXCEPT !.op = "clear_all",
                                   !.failed = IF nfail < max_retries THEN {} ELSE {1},
                                   !.raised = ~safe_session_commits(nfail)]

NextStore ==
    \/ add_documents
    \/ search_by_text
    \/ is_ministry_indexed
    \/ get_ministry_document_count
    \/ clear_ministry_documents
    \/ clear_all

(***************************************************************************)
(* LLMClient.  A string is a sequence of tokens, a word being the number   *)
(* of its place in Vocabulary; the substring test is on whole words.       *)
(***************************************************************************)
Vocabulary ==
    <<"the", "The", "budget", "is", "not", "Not", "NOT", "relevant", "RELEVANT",
      "to", "TO", "outside", "Outside", "scope", "unable", "answer", "this",
      "question", "as", "it", "ministry's", "affairs", "functions", "does",
      "fall", "under", "purview", "of", "within", "jurisdiction", "related",
      "parliamentary", "unrelated", "government", "cannot", "I", "apologize",
      "but", "your", "appears", "be", "and", "governmental", "matters",
      "encountered", "an", "error", "couldn't", "generate", "a", "meaningful",
      "response", "ministry">>

Word(s) == 1 + CHOOSE k \in 1..Len(Vocabulary) : Vocabulary[k] = s
Phrase(ws) == [i \in 1..Len(ws) |-> Word(ws[i])]

\* str.lower() on one word
LowerOf(s) ==
    CASE s = "The" -> "the"
      [] s = "Not" -> "not"
      [] s = "NOT" -> "not"
      [] s = "RELEVANT" -> "relevant"
      [] s = "TO" -> "to"
      [] s = "Outside" -> "outside"
      [] s = "I" -> "i"
      [] OTHER -> s

\* The vocabulary holds every word's lower case but that of "I".
lower_token(c) ==
    IF isspace(c) \/ Vocabulary[c - 1] = "I" THEN c ELSE Word(LowerOf(Vocabulary[c - 1]))

\* text.lower()
lower(t) == [i \in 1..Len(t) |-> lower_token(t[i])]

\* indicator in text_lower
Contains(t, ind) ==
    \E i \in 1..(Len(t) - Len(ind) + 1) : SubSeq(t, i, i + Len(ind) - 1) = ind

irrelevance_indicators ==
    {Phrase(<<"unable", "to", "answer", "this", "question", "as", "it", "is", "not",
              "relevant", "to", "the", "ministry's", "affairs">>),
     Phrase(<<"not", "relevant", "to", "the", "ministry's", "functions">>),
     Phrase(<<"does", "not", "fall", "under", "the", "purview", "of", "this", "ministry">>),
     Phrase(<<"outside", "the", "scope", "of", "this", "ministry">>),
     Phrase(<<"not", "within", "the", "jurisdiction", "of", "this", "ministry">>),
     Phrase(<<"not", "relevant", "to">>),
     Phrase(<<"outside", "the", "scope">>),
     Phrase(<<"not", "related", "to", "parliamentary">>),
     Phrase(<<"not", "within", "the", "jurisdiction">>),
     Phrase(<<"unrelated", "to", "government">>),
     Phrase(<<"cannot", "answer", "this", "question", "as", "it", "is", "not", "relevant">>)}

\* _is_irrelevant_response
is_irrelevant_response(text) ==
    \E response_lower \in {lower(text)} :
       \E ind \in irrelevance_indicators : Contains(response_lower, ind)

\* A returned string: its words and, after them, the citation block.
Str(words) == [text |-> words, sources |-> <<>>]

\* The canonical refusal sentence of _format_parliamentary_response
REFUSAL ==
    Str(Phrase(<<"I", "apologize", "but", "your", "question", "appears", "to", "be",
                 "outside", "the", "scope", "of", "parliamentary", "and",
                 "governmental", "matters">>))
\* _get_error_response
ERROR_RESPONSE ==
    Str(Phrase(<<"I", "apologize", "but", "I", "encountered", "an", "error">>))
\* "I apologize, but I couldn't generate a meaningful response. ..."
EMPTY_STRUCTURED ==
    Str(Phrase(<<"I", "apologize", "but", "I", "couldn't", "generate", "a",
                 "meaningful", "response">>))
\* "I apologize, but I couldn't generate a response. ..."
EMPTY_SIMPLE ==
    Str(Phrase(<<"I", "apologize", "but", "I", "couldn't", "generate", "a", "response">>))

\* dict.get(key, default)
get(d, key, default) == IF key \in DOMAIN d THEN d[key] ELSE default

\* An element of context_docs: a dict, or (dict = FALSE) some other value,
\* on which doc.get raises.
Doc(text, metadata) == [dict |-> TRUE, text |-> text, metadata |-> metadata]
NotADict == [dict |-> FALSE]

\* context.split("\n\n")
RECURSIVE split(_, _)
split(t, cur) ==
    IF t = <<>> THEN <<cur>>
    ELSE IF Head(t) = PARA THEN <<cur>> \o split(Tail(t), <<>>)
    ELSE split(Tail(t), Append(cur, Head(t)))

RECURSIVE parsed_docs(_, _)
parsed_docs(chunks, i) ==
    IF chunks = <<>> THEN <<>>
    ELSE IF strip(Head(chunks)) # <<>>
         THEN <<Doc(strip(Head(chunks)),
                    [chunk_index |-> i, source |-> "parliamentary_document"])>>
              \o parsed_docs(Tail(chunks), i + 1)
         ELSE parsed_docs(Tail(chunks), i + 1)

\* _parse_context_string
parse_context_string(context) ==
    IF context = <<>> \/ strip(context) = <<>> THEN <<>>
    ELSE parsed_docs(split(context, <<>>), 0)

Top(docs, n) == SubSeq(docs, 1, Min(n, Len(docs)))

\* _construct_enhanced_prompt giving the simple prompt for an empty list
construct_enhanced_prompt_or_simple(question, context_docs, ministry) ==
    IF context_docs = <<>>
    THEN [kind |-> "simple", ministry |-> ministry, question |-> question, sources |-> 0]
    ELSE IF \E i \in 1..Len(Top(context_docs, 5)) : ~context_docs[i].dict
    THEN [kind |-> "fallback", ministry |-> ministry, question |-> question, sources |-> 0]
    ELSE [kind |-> "structured", ministry |-> ministry, question |-> question,
          sources |-> Cardinality({i \in 1..Len(Top(context_docs, 5)) :
                                      strip(context_docs[i].text) # <<>>})]

\* _construct_enhanced_prompt: the structured prompt over the top 5
\* documents that have text; when building it raises, the fallback prompt.
construct_enhanced_prompt(question, context_docs, ministry) ==
    IF \E i \in 1..Len(Top(context_docs, 5)) : ~context_docs[i].dict
    THEN [kind |-> "fallback", ministry |-> ministry, question |-> question, sources |-> 0]
    ELSE [kind |-> "structured", ministry |-> ministry, question |-> question,
          sources |-> Cardinality({i \in 1..Len(Top(context_docs, 5)) :
                                      strip(context_docs[i].text) # <<>>})]

\* simple_prompt of _generate_simple_response
simple_prompt(question, ministry) ==
    [kind |-> "simple", ministry |-> ministry, question |-> question, sources |-> 0]

\* The citation of document i, or none when its metadata holds defaults only
citation(i, doc) ==
    LET metadata == doc.metadata
        date == get(metadata, "date", "Unknown date")
        session == get(metadata, "session", "Unknown session")
        source == get(metadata, "filename", get(metadata, "source", "Unknown source"))
    IN IF \/ date # "Unknown date"
          \/ session \notin {"Unknown session", "4"}
          \/ source \notin {"Unknown source", "parliamentary_document"}
       THEN <<[i |-> i, session |-> session, date |-> date, source |-> source]>>
       ELSE <<>>

RECURSIVE meaningful_citations(_, _)
meaningful_citations(docs, i) ==
    IF i > Len(docs) THEN <<>>
    ELSE citation(i, docs[i]) \o meaningful_citations(docs, i + 1)

\* _format_parliamentary_response
format_parliamentary_response(text, context_docs) ==
    LET formatted_text == strip(text)
    IN IF is_irrelevant_response(formatted_text) THEN REFUSAL
       ELSE IF context_docs # <<>>
            THEN IF \E i \in 1..Len(Top(context_docs, 3)) : ~context_docs[i].dict
                 THEN Str(text)
                 ELSE [text |-> formatted_text,
                       sources |-> meaningful_citations(Top(context_docs, 3), 1)]
            ELSE Str(formatted_text)

\* What _call_gemini_api gives: it raises; it returns None; reading
\* response.text raises; or response.text is a string.
Raises(response) == response.kind \in {"raise", "text_raises"}
Empty(response) == response.kind = "none" \/ (response.kind = "text" /\ response.text = <<>>)

\* The except clause of _generate_structured_response answering with the
\* empty-response apology
generate_structured_response_apology(response, context_docs) ==
    IF Raises(response) \/ Empty(response) THEN EMPTY_STRUCTURED
    ELSE format_parliamentary_response(response.text, context_docs)

\* _generate_structured_response, from the model's response on
generate_structured_response(response, context_docs) ==
    IF Raises(response) THEN ERROR_RESPONSE
    ELSE IF Empty(response) THEN EMPTY_STRUCTURED
    ELSE format_parliamentary_response(response.text, context_docs)

\* The except clause of _generate_simple_response answering with the
\* refusal sentence
generate_simple_response_refusing(response) ==
    IF Raises(response) THEN REFUSAL
    ELSE IF Empty(response) THEN EMPTY_SIMPLE
    ELSE Str(strip(response.text))

\* _generate_simple_response, from the model's response on
generate_simple_response(response) ==
    IF Raises(response) THEN ERROR_RESPONSE
    ELSE IF Empty(response) THEN EMPTY_SIMPLE
    ELSE Str(strip(response.text))

\* generate_response_async, from the model's response on
generate_response_async(response, context_docs) ==
    IF Raises(response) THEN ERROR_RESPONSE
    ELSE IF Empty(response) THEN EMPTY_STRUCTURED
    ELSE format_parliamentary_response(response.text, context_docs)

(***************************************************************************)
(* The inputs of an answer request.                                        *)
(***************************************************************************)
\* The segments a model response is made of.
MaxSegments == 2

Segments ==
    {<<WS>>,
     Phrase(<<"The", "budget", "is">>),
     Phrase(<<"NOT", "RELEVANT", "TO">>),
     Phrase(<<"not", "relevant">>),
     Phrase(<<"to">>),
     Phrase(<<"Outside", "the", "scope">>)}

RECURSIVE Texts(_)
Texts(n) ==
    IF n = 0 THEN {<<>>}
    ELSE Texts(n - 1) \cup {t \o g : t \in Texts(n - 1), g \in Segments}

Responses ==
    {[kind |-> k, text |-> <<>>] : k \in {"raise", "none", "text_raises"}}
    \cup {[kind |-> "text", text |-> t] : t \in Texts(MaxSegments)}

EntryPoints ==
    {"generate_answer", "generate_response_with_docs", "generate_response_sync",
     "generate_response_async"}

\* The context argument of generate_answer: a string
ContextStrings ==
    {<<>>, <<WS>>, <<PARA, WS>>,
     Phrase(<<"The", "budget">>),
     Phrase(<<"The", "budget">>) \o <<PARA, WS, PARA>> \o Phrase(<<"is">>)}

SearchDoc(i) ==
    Doc(Phrase(<<"The", "budget">>),
        [source |-> "q1.pdf", ministry |-> "Finance", chunk_index |-> i])
DatedDoc == Doc(<<WS>>, [date |-> "2024-03-01", session |-> "4"])
PlainDoc == Doc(Phrase(<<"is">>), [chunk_index |-> 0, source |-> "parliamentary_document"])

\* The context argument of the other entry points: a list of documents
ContextLists ==
    {<<>>, <<PlainDoc>>, <<SearchDoc(0)>>, <<NotADict>>,
     <<PlainDoc, DatedDoc, SearchDoc(2), SearchDoc(3)>>,
     <<SearchDoc(0), PlainDoc, PlainDoc, NotADict>>}

\* No session operation is running.
SessIdle ==
    [pc |-> "idle", attempt |-> 0, session |-> 0, sessions |-> <<>>, executions |-> 0,
     commits |-> 0, waits |-> <<>>, exit |-> "", error |-> "None"]

\* No process is ingesting.
IngIdle == [rows |-> {}, before |-> {}, procs |-> <<>>, total_chunks |-> 0, healthy |-> FALSE]

\* The executor with nothing submitted.
PoolIdle == [submitted |-> {}, queue |-> <<>>, running |-> {}, done |-> {}]

\* The change monitor is not running; its state file does not exist.
MonIdle == [pc |-> "idle", file |-> <<>>, current_state |-> <<>>, n |-> 0, site |-> <<>>, runs |-> 0, ingest |-> <<>>]

\* No text is being segmented.
SegIdle ==
    [pc |-> "idle", text |-> <<>>, chunk_size |-> 1, overlap |-> 0, chunks |-> <<>>,
     documents |-> <<>>]

\* No request is being answered.
Idle ==
    [pc |-> "IDLE", entry |-> "", context |-> [str |-> <<>>, list |-> <<>>], context_docs |-> <<>>,
     ministry |-> None, prompt |-> simple_prompt("", None), promptFailed |-> FALSE,
     response |-> [kind |-> "none", text |-> <<>>], calls |-> 0, output |-> Str(<<>>)]

InitLLM == req = Idle

(***************************************************************************)
(* One answer request, step by step.                                       *)
(***************************************************************************)
\* A caller enters one of the four entry points.
Receive ==
    /\ req.pc = "IDLE"
    /\ UNCHANGED <<table, indexed_ministries, last, seg, sess, ing, pool, mon>>
    /\ \E entry \in EntryPoints, ministry \in {"Finance", None} :
         \E context \in (IF entry = "generate_answer" THEN ContextStrings ELSE ContextLists) :
           req' = [Idle EXCEPT !.pc = "RECEIVED", !.entry = entry,
                               !.context = IF entry = "generate_answer"
                                           THEN [str |-> context, list |-> <<>>]
                                           ELSE [str |-> <<>>, list |-> context],
                               !.ministry = ministry]

\* generate_answer parses its context and chooses the prompt; the other
\* entry points take the structured prompt, whatever the list holds.
HasContext ==
    /\ req.pc = "RECEIVED"
    /\ UNCHANGED <<table, indexed_ministries, last, seg, sess, ing, pool, mon>>
    /\ LET docs == IF req.entry = "generate_answer"
                   THEN parse_context_string(req.context.str) ELSE req.context.list
       IN req' = [req EXCEPT !.context_docs = docs,
                             !.pc = IF req.entry = "generate_answer" /\ docs = <<>>
                                    THEN "SIMPLE_PROMPT" ELSE "STRUCTURED_PROMPT"]

\* generate_response_sync cannot run its event loop (one is running in the
\* thread): the except clause answers.
LoopFails ==
    /\ req.pc = "RECEIVED"
    /\ UNCHANGED <<table, indexed_ministries, last, seg, sess, ing, pool, mon>>
    /\ req.entry = "generate_response_sync"
    /\ req' = [req EXCEPT !.pc = "ERROR_ANSWER", !.output = ERROR_RESPONSE]

StructuredPrompt ==
    /\ req.pc = "STRUCTURED_PROMPT"
    /\ UNCHANGED <<table, indexed_ministries, last, seg, sess, ing, pool, mon>>
    /\ LET prompt == construct_enhanced_prompt("q", req.context_docs, req.ministry)
       IN req' = [req EXCEPT !.prompt = prompt,
                             !.promptFailed = (prompt.kind = "fallback"),
                             !.pc = "MODEL_CALL"]

SimplePrompt ==
    /\ req.pc = "SIMPLE_PROMPT"
    /\ UNCHANGED <<table, indexed_ministries, last, seg, sess, ing, pool, mon>>
    /\ req' = [req EXCEPT !.prompt = simple_prompt("q", req.ministry), !.pc = "MODEL_CALL"]

\* _call_gemini_api(prompt)
ModelCall ==
    /\ req.pc = "MODEL_CALL"
    /\ UNCHANGED <<table, indexed_ministries, last, seg, sess, ing, pool, mon>>
    /\ \E response \in Responses :
         req' = [req EXCEPT !.response = response, !.calls = req.calls + 1, !.pc = "VALIDATE"]

Outcome(output, response) ==
    IF output = REFUSAL /\ ~Raises(response) /\ ~Empty(response) THEN "IRRELEVANT_ANSWER"
    ELSE IF output = ERROR_RESPONSE THEN "ERROR_ANSWER"
    ELSE IF Empty(response) THEN "EMPTY_ANSWER"
    ELSE "GROUNDED_ANSWER"

\* The rest of the entry point: what it returns.
Validate ==
    /\ req.pc = "VALIDATE"
    /\ UNCHANGED <<table, indexed_ministries, last, seg, sess, ing, pool, mon>>
    /\ LET output ==
             IF req.prompt.kind = "simple" THEN generate_simple_response(req.response)
             ELSE IF req.entry \in {"generate_response_sync", "generate_response_async"}
                  THEN generate_response_async(req.response, req.context_docs)
                  ELSE generate_structured_response(req.response, req.context_docs)
       IN req' = [req EXCEPT !.output = output, !.pc = Outcome(output, req.response)]

NextLLM ==
    \/ Receive
    \/ HasContext
    \/ LoopFails
    \/ StructuredPrompt
    \/ SimplePrompt
    \/ ModelCall
    \/ Validate

AnswerInit ==
    /\ InitStoreIdle /\ InitLLM /\ seg = SegIdle /\ sess = SessIdle /\ ing = IngIdle
    /\ pool = PoolIdle /\ mon = MonIdle
SpecLLM == AnswerInit /\ [][NextLLM]_vars

\* Every step of a request returns or raises: a request goes on.
SpecLLMFair == AnswerInit /\ [][NextLLM]_vars /\ WF_vars(NextLLM)

(***************************************************************************)
(* DocumentProcessor.  Here a token is one character: a space, a sentence  *)
(* terminator (one of ".", "!", "?") or a letter.                          *)
(***************************************************************************)
FULLSTOP == 2
Letters == {3, 4}
Alphabet == {WS, FULLSTOP} \cup Letters

RECURSIVE skip_terminators(_)
skip_terminators(t) ==
    IF t # <<>> /\ Head(t) = FULLSTOP THEN skip_terminators(Tail(t)) ELSE t

\* re.split(r'[.!?]+', text)
RECURSIVE re_split(_, _)
re_split(t, cur) ==
    IF t = <<>> THEN <<cur>>
    ELSE IF Head(t) = FULLSTOP THEN <<cur>> \o re_split(skip_terminators(t), <<>>)
    ELSE re_split(Tail(t), Append(cur, Head(t)))

\* The slice taken whole
last_chars_all(current_chunk, overlap) == current_chunk

\* current_chunk[-overlap:], for overlap > 0
last_chars(current_chunk, overlap) ==
    SubSeq(current_chunk, Max(1, Len(current_chunk) - overlap + 1), Len(current_chunk))

\* The chunk begun without the sentence that did not fit
begin_chunk_without(current_chunk, sentence, overlap) ==
    IF overlap > 0 /\ Len(current_chunk) > overlap
    THEN last_chars(current_chunk, overlap)
    ELSE <<>>

\* The chunk begun after one was closed: the overlap and the sentence
begin_chunk(current_chunk, sentence, overlap) ==
    IF overlap > 0 /\ Len(current_chunk) > overlap
    THEN last_chars(current_chunk, overlap) \o <<WS>> \o sentence
    ELSE sentence

\* The loop over the sentences and the last chunk
RECURSIVE chunk_sentences(_, _, _, _, _)
chunk_sentences(sentences, chunks, current_chunk, chunk_size, overlap) ==
    IF sentences = <<>>
    THEN IF strip(current_chunk) # <<>> THEN Append(chunks, strip(current_chunk)) ELSE chunks
    ELSE LET sentence == strip(Head(sentences))
             rest == Tail(sentences)
         IN IF sentence = <<>>
            THEN chunk_sentences(rest, chunks, current_chunk, chunk_size, overlap)
            ELSE IF Len(current_chunk) + Len(sentence) > chunk_size
            THEN IF current_chunk # <<>>
                 THEN chunk_sentences(rest, Append(chunks, strip(current_chunk)),
                                      begin_chunk(current_chunk, sentence, overlap),
                                      chunk_size, overlap)
                 ELSE chunk_sentences(rest, chunks, sentence, chunk_size, overlap)
            ELSE chunk_sentences(rest, chunks,
                                 IF current_chunk # <<>>
                                 THEN current_chunk \o <<WS>> \o sentence ELSE sentence,
                                 chunk_size, overlap)

\* chunk_text cutting every chunk at chunk_size
chunk_text_cut(text, chunk_size, overlap) ==
    LET chunks == chunk_sentences(re_split(text, <<>>), <<>>, <<>>, chunk_size, overlap)
    IN [k \in 1..Len(chunks) |-> SubSeq(chunks[k], 1, Min(Len(chunks[k]), chunk_size))]

\* chunk_text
chunk_text(text, chunk_size, overlap) ==
    IF text = <<>> THEN <<>>
    ELSE chunk_sentences(re_split(text, <<>>), <<>>, <<>>, chunk_size, overlap)

\* re.sub(r'\s+', ' ', text)
RECURSIVE collapse_spaces(_)
collapse_spaces(t) ==
    IF t = <<>> THEN <<>>
    ELSE IF isspace(Head(t)) THEN <<WS>> \o collapse_spaces(lstrip(t))
    ELSE <<Head(t)>> \o collapse_spaces(Tail(t))

\* clean_text, on text without page headers or special characters
clean_text(text) == IF text = <<>> THEN <<>> ELSE strip(collapse_spaces(text))

\* f"{filename}_chunk_{i}"
chunk_id(filename, i) == <<filename, i>>

\* The documents process_pdf_from_bytes builds from the chunks
documents_of(chunks, filename, ministry) ==
    [k \in 1..Len(chunks) |->
       [id |-> chunk_id(filename, k - 1), text |-> chunks[k],
        metadata |-> [source |-> filename, ministry |-> ministry,
                      chunk_index |-> k - 1, total_chunks |-> Len(chunks)]]]

\* The longest text segmented
MaxTextLen == 5
ChunkSizes == {1, 2, 3}
Overlaps == {0, 1, 2}

RECURSIVE TextsUpTo(_)
TextsUpTo(n) ==
    IF n = 0 THEN {<<>>}
    ELSE TextsUpTo(n - 1) \cup {Append(t, c) : t \in TextsUpTo(n - 1), c \in Alphabet}

InitChunk ==
    \E text \in TextsUpTo(MaxTextLen), chunk_size \in ChunkSizes, overlap \in Overlaps :
      seg = [SegIdle EXCEPT !.pc = "text", !.text = text, !.chunk_size = chunk_size,
                            !.overlap = overlap]

\* A call of chunk_text on the text as it is
ChunkText ==
    /\ seg.pc = "text"
    /\ UNCHANGED <<table, indexed_ministries, last, req, sess, ing, pool, mon>>
    /\ seg' = [seg EXCEPT !.pc = "chunked",
                          !.chunks = chunk_text(seg.text, seg.chunk_size, seg.overlap)]

\* process_pdf_from_bytes on a file whose extracted text is the text:
\* cleaned, chunked, each chunk made a document
process_pdf_from_bytes ==
    /\ seg.pc = "text"
    /\ UNCHANGED <<table, indexed_ministries, last, req, sess, ing, pool, mon>>
    /\ LET cleaned_text == clean_text(seg.text)
           chunks == chunk_text(cleaned_text, seg.chunk_size, seg.overlap)
       IN seg' = [seg EXCEPT !.pc = "processed", !.text = cleaned_text, !.chunks = chunks,
                             !.documents = IF seg.text = <<>> THEN <<>>
                                           ELSE documents_of(chunks, "q1.pdf", "Finance")]

NextChunk ==
    \/ ChunkText
    \/ process_pdf_from_bytes

SegmentInit ==
    /\ InitStoreIdle /\ InitLLM /\ InitChunk /\ sess = SessIdle /\ ing = IngIdle
    /\ pool = PoolIdle /\ mon = MonIdle
SpecChunk == SegmentInit /\ [][NextChunk]_vars

(***************************************************************************)
(* AzureVectorStore._safe_session_operation, one statement at a time.      *)
(* sess.sessions lists the sessions the run has opened: whether each is    *)
(* open, whether its attempt failed, what became of its rollback, and what *)
(* the rollback had come to when the session was first closed.             *)
(***************************************************************************)
\* The exception classes the three except clauses tell apart
Errors == {"PendingRollbackError", "SQLAlchemyError", "Exception"}

\* time.sleep(2 ** attempt), with the exponent one too large
sleep_time_late(attempt) == 2 ^ (attempt + 1)

\* time.sleep(2 ** attempt)
sleep_time(attempt) == 2 ^ attempt

\* A loop that never takes another turn
retries_left_never(attempt) == FALSE

\* if attempt < max_retries - 1
retries_left(attempt) == attempt < max_retries - 1

\* session = self.Session()
new_session(sessions) ==
    Append(sessions, [open |-> TRUE, failed |-> FALSE, rollback |-> "none",
                      closed_after |-> "open"])

\* A close that releases nothing
close_skipped(sessions, k) == sessions

\* session.close()
close(sessions, k) ==
    [sessions EXCEPT ![k] = [@ EXCEPT !.open = FALSE,
                                      !.closed_after = IF @ = "open" THEN sessions[k].rollback
                                                       ELSE @]]

\* The attempt of the current session has raised.
attempt_failed(sessions, k) ==
    IF k = 0 THEN sessions ELSE [sessions EXCEPT ![k].failed = TRUE]

InitSession == sess = [SessIdle EXCEPT !.pc = "Session"]

\* session = self.Session(): a session is opened, or the call raises.
Session ==
    /\ sess.pc = "Session"
    /\ UNCHANGED <<table, indexed_ministries, last, req, seg, ing, pool, mon>>
    /\ \/ sess' = [sess EXCEPT !.sessions = new_session(sess.sessions),
                               !.session = Len(sess.sessions) + 1,
                               !.pc = "operation_func"]
       \/ \E error \in Errors :
            sess' = [sess EXCEPT !.error = error, !.pc = "except"]

\* result = operation_func(session): the unit of work runs once.
operation_func ==
    /\ sess.pc = "operation_func"
    /\ UNCHANGED <<table, indexed_ministries, last, req, seg, ing, pool, mon>>
    /\ \/ sess' = [sess EXCEPT !.executions = @ + 1, !.pc = "commit"]
       \/ \E error \in Errors :
            sess' = [sess EXCEPT !.executions = @ + 1, !.error = error,
                                 !.sessions = attempt_failed(sess.sessions, sess.session),
                                 !.pc = "except"]

\* session.commit(), and with it return result
commit ==
    /\ sess.pc = "commit"
    /\ UNCHANGED <<table, indexed_ministries, last, req, seg, ing, pool, mon>>
    /\ \/ sess' = [sess EXCEPT !.commits = @ + 1, !.exit = "return", !.pc = "finally"]
       \/ \E error \in Errors :
            sess' = [sess EXCEPT !.error = error,
                                 !.sessions = attempt_failed(sess.sessions, sess.session),
                                 !.pc = "except"]

\* An except clause: if session: session.rollback(), which may raise
\* itself and is then only logged, the close after it skipped.
rollback ==
    /\ sess.pc = "except"
    /\ UNCHANGED <<table, indexed_ministries, last, req, seg, ing, pool, mon>>
    /\ IF sess.session = 0
       THEN sess' = [sess EXCEPT !.pc = "backoff"]
       ELSE \/ sess' = [sess EXCEPT !.sessions[sess.session].rollback = "done",
                                    !.pc = "close"]
            \/ sess' = [sess EXCEPT !.sessions[sess.session].rollback = "raised",
                                    !.pc = "backoff"]

\* session.close() of the except clause
close_after_rollback ==
    /\ sess.pc = "close"
    /\ UNCHANGED <<table, indexed_ministries, last, req, seg, ing, pool, mon>>
    /\ sess' = [sess EXCEPT !.sessions = close(sess.sessions, sess.session),
                            !.pc = "backoff"]

\* if attempt < max_retries - 1: sleep and continue; else: raise
backoff ==
    /\ sess.pc = "backoff"
    /\ UNCHANGED <<table, indexed_ministries, last, req, seg, ing, pool, mon>>
    /\ IF retries_left(sess.attempt)
       THEN sess' = [sess EXCEPT !.waits = Append(@, sleep_time(sess.attempt)),
                                 !.exit = "continue", !.pc = "finally"]
       ELSE sess' = [sess EXCEPT !.exit = "raise", !.pc = "finally"]

\* finally: if session: session.close(); then the return, the next turn of
\* the loop or the raise that was pending.
finally ==
    /\ sess.pc = "finally"
    /\ UNCHANGED <<table, indexed_ministries, last, req, seg, ing, pool, mon>>
    /\ LET closed == IF sess.session = 0 THEN sess.sessions
                     ELSE close(sess.sessions, sess.session)
       IN CASE sess.exit = "return" ->
                 sess' = [sess EXCEPT !.sessions = closed, !.pc = "returned"]
            [] sess.exit = "raise" ->
                 sess' = [sess EXCEPT !.sessions = closed, !.pc = "raised"]
            [] sess.exit = "continue" ->
                 sess' = [sess EXCEPT !.sessions = closed, !.pc = "Session",
                                      !.attempt = @ + 1, !.session = 0, !.exit = "",
                                      !.error = "None"]

NextSession ==
    \/ Session
    \/ operation_func
    \/ commit
    \/ rollback
    \/ close_after_rollback
    \/ backoff
    \/ finally

\* Every statement of the loop returns or raises: the run goes on.
SessionInit ==
    /\ InitStoreIdle /\ InitLLM /\ seg = SegIdle /\ InitSession /\ ing = IngIdle
    /\ pool = PoolIdle /\ mon = MonIdle
SpecSession == SessionInit /\ [][NextSession]_vars /\ WF_vars(NextSession)

(***************************************************************************)
(* SansadClient.ingest, run by two processes over the same questions of    *)
(* one ministry.  ing.rows is the documents table they share, a set of     *)
(* rows so that two rows of one id can be told from one; ing.before is the *)
(* table as the run found it; ing.procs holds each process's place in the  *)
(* loop; ing.total_chunks is the number of chunks process_pdf_from_bytes   *)
(* makes of a file; ing.healthy says that no collaborator fails any more.  *)
(* A row records which writer computed its text and its embedding; writer  *)
(* 0 is an earlier run.                                                    *)
(***************************************************************************)
Procs == {1, 2}

\* The filenames of the questions fetch_all_questions returns
Questions == <<"q1.pdf", "q2.pdf">>

\* The chunks process_pdf_from_bytes makes of one file
ChunksPerFile == 2

Row(filename, i, writer) ==
    [id |-> chunk_id(filename, i), source |-> filename, text_by |-> writer,
     embedding_by |-> writer]

\* The rows of a file ingested whole
RowsOfFile(filename, writer) == {Row(filename, i, writer) : i \in 0..(ChunksPerFile - 1)}

\* The check finding nothing
is_pdf_in_db_never(rows, filename) == FALSE

\* SELECT 1 FROM documents WHERE doc_metadata->>'source' = :filename LIMIT 1
is_pdf_in_db(rows, filename) == \E r \in rows : r.source = filename

\* session.merge(doc_obj) on chunk i: the row is looked up by its id and
\* is to be updated when found, inserted when not.
merge_pending(rows, filename, i) ==
    [id |-> chunk_id(filename, i),
     kind |-> IF \E r \in rows : r.id = chunk_id(filename, i) THEN "update" ELSE "insert"]

\* A table without a primary key: no insert is refused.
conflicts_none(rows, txn) == {}

\* id = Column(String, primary_key=True): the inserts the table refuses
conflicts(rows, txn) ==
    {w \in txn : w.kind = "insert" /\ \E r \in rows : r.id = w.id}

\* The table after the commit of a transaction by a writer
committed(rows, txn, filename, writer) ==
    {r \in rows : \A w \in txn : ~(w.kind = "update" /\ w.id = r.id)}
    \cup {[id |-> w.id, source |-> filename, text_by |-> writer, embedding_by |-> writer] :
             w \in txn}

\* The loop goes to the next question, or ends after the last.
next_question(proc) ==
    [proc EXCEPT !.pos = @ + 1,
                 !.pc = IF proc.pos + 1 > Len(Questions) THEN "done" ELSE "is_pdf_in_db",
                 !.txn = {}, !.k = 0, !.i = 0, !.attempt = 0, !.total_added = 0]

\* An except clause that lets the exception go
except_raise(proc) == [proc EXCEPT !.pc = "raised"]

\* except Exception as e: logger.error(...); continue
except_continue(proc) == next_question(proc)

Did(proc, step) == [proc EXCEPT !.work = @ \cup {<<Questions[proc.pos], step>>}]
Failed(proc, step) == [proc EXCEPT !.faults = @ \cup {<<proc.pos, step>>}]

ProcStart ==
    [pc |-> "is_pdf_in_db", pos |-> 1, txn |-> {}, k |-> 0, i |-> 0, attempt |-> 0,
     total_added |-> 0, ingested_files |-> 0, added |-> {}, visited |-> {}, work |-> {},
     faults |-> {}]

\* A process that was not started
ProcIdle == [ProcStart EXCEPT !.pc = "idle"]

\* The table an ingest run finds: any of the files ingested whole before.
InitIngest ==
    \E before \in SUBSET {Questions[n] : n \in 1..Len(Questions)} :
       LET rows == UNION {RowsOfFile(f, 0) : f \in before}
       IN ing = [rows |-> rows, before |-> rows, procs |-> [p \in Procs |-> ProcStart],
                 total_chunks |-> ChunksPerFile, healthy |-> FALSE]

\* if self.is_pdf_in_db(filename): continue -- or the check raises
IsPdfInDb(p) ==
    /\ ing.procs[p].pc = "is_pdf_in_db"
    /\ UNCHANGED <<table, indexed_ministries, last, req, seg, sess, pool, mon>>
    /\ LET proc == [ing.procs[p] EXCEPT !.visited = @ \cup {ing.procs[p].pos}]
       IN \/ ing' = [ing EXCEPT !.procs[p] =
                        IF is_pdf_in_db(ing.rows, Questions[proc.pos])
                        THEN next_question(proc)
                        ELSE [proc EXCEPT !.pc = "fetch_pdf_bytes"]]
          \/ /\ ~ing.healthy
             /\ ing' = [ing EXCEPT !.procs[p] = except_continue(Failed(proc, "is_pdf_in_db"))]

\* pdf_bytes = self.fetch_pdf_bytes(pdf_url); if pdf_bytes is None: continue
FetchPdfBytes(p) ==
    /\ ing.procs[p].pc = "fetch_pdf_bytes"
    /\ UNCHANGED <<table, indexed_ministries, last, req, seg, sess, pool, mon>>
    /\ LET proc == Did(ing.procs[p], "fetch")
       IN \/ ing' = [ing EXCEPT !.procs[p] = [proc EXCEPT !.pc = "process_pdf_from_bytes"]]
          \/ /\ ~ing.healthy
             /\ ing' = [ing EXCEPT !.procs[p] = next_question(Failed(proc, "fetch"))]

\* documents = self.process_pdf_from_bytes(...); if not documents: continue
ProcessPdf(p) ==
    /\ ing.procs[p].pc = "process_pdf_from_bytes"
    /\ UNCHANGED <<table, indexed_ministries, last, req, seg, sess, pool, mon>>
    /\ LET proc == Did(ing.procs[p], "extract")
       IN \/ ing' = [ing EXCEPT !.procs[p] = [proc EXCEPT !.pc = "upload_bytes"]]
          \/ /\ ~ing.healthy
             /\ ing' = [ing EXCEPT !.procs[p] = next_question(Failed(proc, "extract"))]

\* try: self.storage.upload_bytes(...) except Exception: logger.error(...)
UploadBytes(p) ==
    /\ ing.procs[p].pc = "upload_bytes"
    /\ UNCHANGED <<table, indexed_ministries, last, req, seg, sess, pool, mon>>
    /\ LET proc == Did(ing.procs[p], "upload")
       IN \/ ing' = [ing EXCEPT !.procs[p] = [proc EXCEPT !.pc = "merge"]]
          \/ /\ ~ing.healthy
             /\ ing' = [ing EXCEPT !.procs[p] =
                           [Failed(proc, "upload_bytes") EXCEPT !.pc = "merge"]]

\* for i in range(0, len(documents), batch_size): the batch that starts at
\* chunk i ends before chunk batch_end.
batch_end(i, total_chunks) == IF i + BatchSize < total_chunks THEN i + BatchSize ELSE total_chunks

\* add_documents, batch_operation: the embedding and session.merge of the
\* next chunk of the batch, in the session of the current attempt
Merge(p) ==
    /\ ing.procs[p].pc = "merge"
    /\ UNCHANGED <<table, indexed_ministries, last, req, seg, sess, pool, mon>>
    /\ LET proc == Did(ing.procs[p], "write")
           w == merge_pending(ing.rows, Questions[proc.pos], proc.k)
       IN ing' = [ing EXCEPT !.procs[p] =
                     [proc EXCEPT !.txn = @ \cup {w}, !.k = @ + 1,
                                  !.pc = IF proc.k + 1 = batch_end(proc.i, ing.total_chunks)
                                         THEN "commit" ELSE "merge"]]

\* self.vector_store.add_documents(documents, self.ministry) has returned
\* total_added, which ingest drops; ingested_files += 1
count_ingested(ingested_files, total_added) == ingested_files + 1

\* After add_documents: the count, and the next question.  added records
\* the sources of which add_documents stored a chunk in this run.
Ingested(proc) ==
    next_question([proc EXCEPT
        !.ingested_files = count_ingested(@, proc.total_added),
        !.added = IF proc.total_added > 0 THEN @ \cup {Questions[proc.pos]} ELSE @])

\* The batch is over, committed or skipped: the next batch, or the return
\* of add_documents after the last.
next_batch(proc, total_chunks) ==
    IF proc.k = total_chunks
    THEN Ingested(proc)
    ELSE [proc EXCEPT !.i = proc.k, !.txn = {}, !.attempt = 0, !.pc = "merge"]

\* An attempt failed: the next attempt, or after the last the batch is
\* skipped (except Exception: logger.error(...); continue).
Retry(proc, total_chunks) ==
    IF retries_left(proc.attempt)
    THEN [proc EXCEPT !.attempt = @ + 1, !.txn = {}, !.k = proc.i, !.pc = "merge"]
    ELSE next_batch(proc, total_chunks)

\* session.commit() of the batch: the table takes the rows and
\* total_added += added, or the table refuses an insert whose id another
\* writer has put there since the merge, or the connection fails.
Commit(p) ==
    /\ ing.procs[p].pc = "commit"
    /\ UNCHANGED <<table, indexed_ministries, last, req, seg, sess, pool, mon>>
    /\ LET proc == ing.procs[p]
       IN \/ IF conflicts(ing.rows, proc.txn) = {}
             THEN ing' = [ing EXCEPT !.rows = committed(ing.rows, proc.txn,
                                                        Questions[proc.pos], p),
                                     !.procs[p] = next_batch(
                                         [proc EXCEPT !.total_added = @ + Cardinality(proc.txn)],
                                         ing.total_chunks)]
             ELSE ing' = [ing EXCEPT !.procs[p] =
                             Retry(Did(proc, "conflict"), ing.total_chunks)]
          \/ /\ ~ing.healthy
             /\ ing' = [ing EXCEPT !.procs[p] = Retry(Failed(proc, "write"), ing.total_chunks)]

NextIngest ==
    \/ \E p \in Procs : IsPdfInDb(p)
    \/ \E p \in Procs : FetchPdfBytes(p)
    \/ \E p \in Procs : ProcessPdf(p)
    \/ \E p \in Procs : UploadBytes(p)
    \/ \E p \in Procs : Merge(p)
    \/ \E p \in Procs : Commit(p)

IngestInit ==
    /\ InitStoreIdle /\ InitLLM /\ seg = SegIdle /\ sess = SessIdle /\ InitIngest
    /\ pool = PoolIdle /\ mon = MonIdle
SpecIngest == IngestInit /\ [][NextIngest]_vars

(***************************************************************************)
(* SansadClient.ingest run again and again by one process, over files of   *)
(* two batches, against collaborators that fail until they are healthy.    *)
(***************************************************************************)
\* The table the first run finds, and files of BatchSize + 1 chunks
InitReingest ==
    \E before \in SUBSET {Questions[n] : n \in 1..Len(Questions)} :
       LET rows == UNION {{Row(f, i, 0) : i \in 0..BatchSize} : f \in before}
       IN ing = [rows |-> rows, before |-> rows,
                 procs |-> [p \in Procs |-> IF p = 1 THEN ProcStart ELSE ProcIdle],
                 total_chunks |-> BatchSize + 1, healthy |-> FALSE]

\* sansad_client.py is started again once its run is over.
Rerun(p) ==
    /\ ing.procs[p].pc = "done"
    /\ UNCHANGED <<table, indexed_ministries, last, req, seg, sess, pool, mon>>
    /\ ing' = [ing EXCEPT !.procs[p] = ProcStart]

\* The store and the other collaborators fail no more.
Heal ==
    /\ ~ing.healthy
    /\ UNCHANGED <<table, indexed_ministries, last, req, seg, sess, pool, mon>>
    /\ ing' = [ing EXCEPT !.healthy = TRUE]

NextReingest ==
    \/ \E p \in Procs : IsPdfInDb(p)
    \/ \E p \in Procs : FetchPdfBytes(p)
    \/ \E p \in Procs : ProcessPdf(p)
    \/ \E p \in Procs : UploadBytes(p)
    \/ \E p \in Procs : Merge(p)
    \/ \E p \in Procs : Commit(p)
    \/ \E p \in Procs : Rerun(p)
    \/ Heal

\* The process goes on with its loop and is started again after it.
ReingestInit ==
    /\ InitStoreIdle /\ InitLLM /\ seg = SegIdle /\ sess = SessIdle /\ InitReingest
    /\ pool = PoolIdle /\ mon = MonIdle
SpecReingest == ReingestInit /\ [][NextReingest]_vars /\ WF_vars(NextReingest)

(***************************************************************************)
(* The change monitor, adding_new_pdfs.main, started again and again.      *)
(* mon.file is the state file website_data/ministry_web_monitor.json,      *)
(* mon.current_state the dictionary main works on, mon.n its place in      *)
(* MINISTRY_CODES and mon.site the PDF list the site serves for each       *)
(* ministry code.  mon.ingest remembers, for each code, the PDF list of    *)
(* the last check and what became of the ingestion: "skipped", or the      *)
(* subprocess "ok" or "failed".                                            *)
(***************************************************************************)
MINISTRY_CODES == <<59, 12, 39>>
Codes == {MINISTRY_CODES[n] : n \in 1..Len(MINISTRY_CODES)}

\* The longest PDF list of a ministry, and the runs of the monitor
MaxPdfs == 2
MaxRuns == 2

\* fetch_ministry_digest: the PDF URLs of a ministry with n questions,
\* sorted and without duplicates
fetch_ministry_digest(n) == [i \in 1..n |-> i]

\* calc_hash: the SHA-256 of the sorted URLs joined by newlines, which two
\* lists share exactly when they hold the same URLs as often.
calc_hash(pdf_list) ==
    [urls |-> {pdf_list[i] : i \in 1..Len(pdf_list)}, len |-> Len(pdf_list)]

\* current_state.get(key, {}) of a key the file does not hold: its
\* "hash" is None, which no digest equals (no list has length -1).
NoEntry == [hash |-> [urls |-> {}, len |-> -1], pdf_count |-> 0]

\* if stored.get("hash") != hash_val
changed(stored, hash_val) == stored.hash # hash_val

\* The state file does not exist, the monitor is about to start, and the
\* site serves some PDF list for each ministry.
InitMonitor ==
    \E site \in [Codes -> 0..(MaxPdfs - 1)] :
       mon = [pc |-> "load_state", file |-> [c \in Codes |-> NoEntry],
              current_state |-> [c \in Codes |-> NoEntry], n |-> 1, site |-> site,
              runs |-> 0,
              ingest |-> [c \in Codes |-> [result |-> "none", pdfs |-> <<>>]]]

\* current_state = load_state()
load_state ==
    /\ mon.pc = "load_state"
    /\ UNCHANGED <<table, indexed_ministries, last, req, seg, sess, ing, pool>>
    /\ mon' = [mon EXCEPT !.current_state = mon.file, !.n = 1, !.pc = "for"]

\* One turn of `for code in MINISTRY_CODES`: the list is fetched and
\* hashed; when the hash is not the stored one the entry of the code is
\* replaced in current_state and sansad_client.py is run, its exit status
\* dropped.  The fetch may raise, which ends main before save_state.
main_for ==
    /\ mon.pc = "for"
    /\ UNCHANGED <<table, indexed_ministries, last, req, seg, sess, ing, pool>>
    /\ LET code == MINISTRY_CODES[mon.n]
           pdfs == fetch_ministry_digest(mon.site[code])
           hash_val == calc_hash(pdfs)
           stored == mon.current_state[code]
           pc == IF mon.n = Len(MINISTRY_CODES) THEN "save_state" ELSE "for"
       IN \/ /\ changed(stored, hash_val)
             /\ \E returncode \in {"ok", "failed"} :
                   mon' = [mon EXCEPT
                       !.current_state[code] = [hash |-> hash_val, pdf_count |-> Len(pdfs)],
                       !.ingest[code] = [result |-> returncode, pdfs |-> pdfs],
                       !.n = @ + 1, !.pc = pc]
          \/ /\ ~changed(stored, hash_val)
             /\ mon' = [mon EXCEPT !.ingest[code] = [result |-> "skipped", pdfs |-> pdfs],
                                   !.n = @ + 1, !.pc = pc]
          \/ mon' = [mon EXCEPT !.pc = "raised"]

\* save_state(current_state), the last statement of main
save_state ==
    /\ mon.pc = "save_state"
    /\ UNCHANGED <<table, indexed_ministries, last, req, seg, sess, ing, pool>>
    /\ mon' = [mon EXCEPT !.file = mon.current_state, !.pc = "returned"]

\* if __name__ == "__main__": main() -- the monitor is started again.
main ==
    /\ mon.pc \in {"returned", "raised"}
    /\ mon.runs < MaxRuns
    /\ UNCHANGED <<table, indexed_ministries, last, req, seg, sess, ing, pool>>
    /\ mon' = [mon EXCEPT !.runs = @ + 1, !.pc = "load_state"]

\* The site publishes one more PDF of a ministry.
publish(code) ==
    /\ mon.site[code] < MaxPdfs
    /\ UNCHANGED <<table, indexed_ministries, last, req, seg, sess, ing, pool>>
    /\ mon' = [mon EXCEPT !.site[code] = @ + 1]

NextMonitor ==
    \/ load_state
    \/ main_for
    \/ save_state
    \/ main
    \/ \E code \in Codes : publish(code)

MonitorInit ==
    /\ InitStoreIdle /\ InitLLM /\ seg = SegIdle /\ sess = SessIdle /\ ing = IngIdle
    /\ pool = PoolIdle /\ InitMonitor
SpecMonitor == MonitorInit /\ [][NextMonitor]_vars

(***************************************************************************)
(* LLMClient.executor: ThreadPoolExecutor(max_workers=2).  A call handed   *)
(* to run_in_executor waits in the executor's queue until a worker thread  *)
(* takes it; the executor has at most max_workers threads, started as      *)
(* calls are submitted, and each runs one call at a time.                  *)
(***************************************************************************)
\* ThreadPoolExecutor(max_workers=2)
max_workers == 2

\* The most calls submitted in one behaviour.
MaxCalls == 4
Calls == 1..MaxCalls

\* Every worker is free, whatever runs
has_idle_worker_always(running) == TRUE

\* A thread of the pool is free, or can still be started.
has_idle_worker(running) == Cardinality(running) < max_workers

InitPool == pool = PoolIdle

\* generate_response_async: loop.run_in_executor(self.executor,
\* self._call_gemini_api, prompt) puts the call in the executor's queue.
run_in_executor(c) ==
    /\ c \notin pool.submitted
    /\ UNCHANGED <<table, indexed_ministries, last, req, seg, sess, ing, mon>>
    /\ pool' = [pool EXCEPT !.submitted = @ \cup {c}, !.queue = Append(@, c)]

\* A worker thread takes the first call of the queue.
worker ==
    /\ pool.queue # <<>>
    /\ has_idle_worker(pool.running)
    /\ UNCHANGED <<table, indexed_ministries, last, req, seg, sess, ing, mon>>
    /\ pool' = [pool EXCEPT !.queue = Tail(@), !.running = @ \cup {Head(pool.queue)}]

\* _call_gemini_api returns, or raises, in the worker thread; the future
\* of the call holds the outcome and the thread is free again.
call_gemini_api(c) ==
    /\ c \in pool.running
    /\ UNCHANGED <<table, indexed_ministries, last, req, seg, sess, ing, mon>>
    /\ \E outcome \in {"result", "exception"} :
         pool' = [pool EXCEPT !.running = @ \ {c},
                              !.done = @ \cup {[call |-> c, outcome |-> outcome]}]

NextPool ==
    \/ \E c \in Calls : run_in_executor(c)
    \/ worker
    \/ \E c \in Calls : call_gemini_api(c)

PoolInit ==
    /\ InitStoreIdle /\ InitLLM /\ seg = SegIdle /\ sess = SessIdle /\ ing = IngIdle
    /\ InitPool /\ mon = MonIdle

\* The worker threads run, and a call that runs comes to an end.
SpecPool ==
    /\ PoolInit /\ [][NextPool]_vars
    /\ WF_vars(worker)
    /\ \A c \in Calls : WF_vars(call_gemini_api(c))

Init ==
    /\ InitStore /\ InitLLM /\ seg = SegIdle /\ sess = SessIdle /\ ing = IngIdle
    /\ pool = PoolIdle /\ mon = MonIdle
Spec == Init /\ [][NextStore]_vars

(***************************************************************************)
(* Claims about the store, checked under Spec.                             *)
(***************************************************************************)
LastDocs == Docs(last.docs)
BatchOf(k) == ((k - 1) \div BatchSize) + 1
\* The positions of the last add_documents call whose document was merged
\* by a batch that committed.
Persisted(l) ==
    {k \in 1..l.docs.n : /\ BatchOf(k) \notin l.failed
                         /\ k \notin l.embedFail
                         /\ strip(Docs(l.docs)[k].text) # <<>>}

\* C1: every result of search_by_text(query, A, limit) carries ministry A.
C1_MinistryScoping ==
    last.op = "search_by_text" =>
        \A i \in 1..Len(last.returned) : last.returned[i].ministry = last.ministry

\* A search returned a row while a row of another ministry lies closer to
\* the query.
C1_Witness ==
    /\ last.op = "search_by_text"
    /\ Len(last.returned) >= 1
    /\ \E id \in DOMAIN table :
          /\ table[id].ministry \in Ministries \ {last.ministry}
          /\ Distance(table[id].embedding, create_embedding(last.query)) < last.returned[1].distance

\* C2: a second add_documents of the same chunk set for the same ministry,
\* with no failure in either call, leaves the number of stored rows as the
\* first call left it.
C2_UpsertIdempotent ==
    [][(/\ last'.op = "add_documents"
        /\ last'.repeats
        /\ last'.failed = {}
        /\ last'.embedFail = {}
        /\ HasIds(Docs(last'.docs)))
       => Cardinality(DOMAIN table') = Cardinality(DOMAIN table)]_vars

\* The second of two equal healthy calls has stored a chunk set of two
\* batches.
C2_Witness ==
    /\ last.op = "add_documents"
    /\ last.repeats
    /\ last.failed = {}
    /\ last.embedFail = {}
    /\ last.returned = BatchSize + 1
    /\ Cardinality(DOMAIN table) > BatchSize + 1

\* C8: within a search result a smaller distance never has a smaller
\* relevance score, and every score lies in [0, 1].
C8_RelevanceMonotone ==
    last.op = "search_by_text" =>
        \A i, j \in 1..Len(last.returned) :
            /\ last.returned[i].distance >= 0
            /\ last.returned[i].relevance_score >= 0
            /\ last.returned[i].relevance_score <= Scale
            /\ last.returned[i].distance < last.returned[j].distance
                 => last.returned[i].relevance_score >= last.returned[j].relevance_score

\* A search returned two rows, the nearer with a positive score and the
\* farther beyond distance 1.
C8_Witness ==
    /\ last.op = "search_by_text"
    /\ Len(last.returned) = 2
    /\ last.returned[1].distance < Scale
    /\ last.returned[1].relevance_score > 0
    /\ last.returned[2].distance > Scale

\* C9: add_documents works in batches of 10.  A document merged by a batch
\* that committed is stored, whatever happened to the other batches; the
\* ids of a batch that failed on all its attempts are as they were; every
\* other row is as it was; the count returned is the number of documents
\* merged by the committed batches.
C9_BatchIsolation ==
    [][last'.op = "add_documents" =>
        LET docs == Docs(last'.docs)
            ids == {docs[k].id : k \in Persisted(last')}
        IN /\ \A k \in Persisted(last') :
                 /\ docs[k].id \in DOMAIN table'
                 /\ table'[docs[k].id].text = strip(docs[k].text)
           /\ \A id \in (DOMAIN table \cup DOMAIN table') \ ids :
                 /\ id \in DOMAIN table
                 /\ id \in DOMAIN table'
                 /\ table'[id] = table[id]
           /\ last'.returned = Cardinality(Persisted(last'))
           /\ last'.failed \subseteq 1..NumBatches(last'.docs.n, BatchSize)]_vars

\* The first batch failed on all its attempts and the second was still
\* committed: its one row is stored and counted.
C9_Witness ==
    /\ last.op = "add_documents"
    /\ last.docs.n = BatchSize + 1
    /\ last.failed = {1}
    /\ last.returned = 1
    /\ LastDocs[BatchSize + 1].id \in DOMAIN table
    /\ LastDocs[1].id \notin DOMAIN table

\* C10: after an add_documents call that persisted a record tagged with
\* ministry m, m is in indexed_ministries.
C10_IndexedAfterAdd ==
    last.op = "add_documents" =>
        \A k \in Persisted(last) :
            table[LastDocs[k].id].ministry \in Ministries
                => table[LastDocs[k].id].ministry \in indexed_ministries


\* The positions of an add_documents call whose document the loop of a
\* committed batch skipped: blank text, or an embedding that raised.
Skipped(l) ==
    {k \in 1..l.docs.n : /\ BatchOf(k) \notin l.failed
                         /\ \/ k \in l.embedFail
                            \/ strip(Docs(l.docs)[k].text) = <<>>}

\* C26: a chunk of a batch whose text is blank or whose embedding fails
\* is skipped: the call leaves its id as it was and does not count it,
\* while every other chunk of the same batch is stored and counted and the
\* batch is committed.
C26_SkipWithinBatch ==
    [][last'.op = "add_documents" =>
        LET docs == Docs(last'.docs)
            others == {j \in 1..Len(docs) : BatchOf(j) \notin last'.failed} \ Skipped(last')
        IN /\ \A k \in Skipped(last') :
                 /\ docs[k].id \in DOMAIN table' =>
                      (docs[k].id \in DOMAIN table /\ table'[docs[k].id] = table[docs[k].id])
                 /\ \A j \in others :
                      BatchOf(j) = BatchOf(k) =>
                        /\ docs[j].id \in DOMAIN table'
                        /\ table'[docs[j].id].text = strip(docs[j].text)
                        /\ table'[docs[j].id].embedding = create_embedding(docs[j].text)
           /\ last'.returned = Cardinality(others)]_vars

\* The embedding of the first chunk of a batch of ten failed: the chunk
\* is not stored, the nine after it are, and the call returns 10 with the
\* chunk of the second batch.
C26_Witness ==
    /\ last.op = "add_documents"
    /\ last.docs.n = BatchSize + 1
    /\ last.embedFail = {1}
    /\ last.failed = {}
    /\ last.returned = BatchSize
    /\ LastDocs[1].id \notin DOMAIN table
    /\ \A k \in 2..BatchSize : LastDocs[k].id \in DOMAIN table

\* C27 as stated: no stored row has a null ministry.
C27_NoNullMinistry == \A id \in DOMAIN table : table[id].ministry # None

\* C27: a row persisted by add_documents carries the ministry argument
\* when one was passed, and otherwise the ministry of the chunk's
\* metadata; it has a null ministry exactly when the call had no ministry
\* argument and the metadata names none, and such a row belongs to no
\* ministry's search scope or count.
C27_TaggedWhenGiven ==
    /\ [][last'.op = "add_documents" =>
            \A k \in Persisted(last') :
               LET doc == Docs(last'.docs)[k]
                   row == table'[doc.id]
               IN /\ row.ministry = IF last'.ministry # None THEN last'.ministry
                                    ELSE doc.metadata.ministry
                  /\ (row.ministry = None) <=>
                       (last'.ministry = None /\ doc.metadata.ministry = None)]_vars
    /\ [](\A id \in DOMAIN table :
            table[id].ministry = None =>
              \A m \in MinistryArgs : id \notin rows_of_ministry(table, m))

\* add_documents was called with no ministry argument for chunks whose
\* metadata names no ministry: the row is stored with a null ministry.
C27_Witness ==
    /\ last.op = "add_documents"
    /\ last.ministry = None
    /\ last.docs.meta = None
    /\ last.returned = 1
    /\ table[LastDocs[1].id].ministry = None

\* The index holds exactly the ministries that have a stored row.
IndexMatchesStore ==
    \A m \in Ministries : (m \in indexed_ministries) <=> (count_operation(table, m) >= 1)

\* C11: in a process whose startup load succeeded (the index then matches
\* the store), the index still matches the store after every
\* add_documents, clear_ministry_documents and clear_all, failed or not.
C11_IndexMatchesStore ==
    [][(/\ last'.op \in {"add_documents", "clear_ministry_documents", "clear_all"}
        /\ IndexMatchesStore)
       => IndexMatchesStore']_vars

\* C12: clear_ministry_documents(m) that returns leaves no row of m and m
\* out of the index, and every row and index entry of the other ministries
\* as it was; clear_all that returns leaves no row and an empty index; a
\* clear that fails leaves the index (and the table) as it was.
C12_ClearFrame ==
    [][/\ last'.op = "clear_ministry_documents" /\ last'.ministry \in Ministries =>
            IF last'.raised
            THEN indexed_ministries' = indexed_ministries /\ table' = table
            ELSE /\ rows_of_ministry(table', last'.ministry) = {}
                 /\ last'.ministry \notin indexed_ministries'
                 /\ indexed_ministries' \ {last'.ministry}
                       = indexed_ministries \ {last'.ministry}
                 /\ DOMAIN table' = (DOMAIN table) \ rows_of_ministry(table, last'.ministry)
                 /\ \A id \in DOMAIN table' : table'[id] = table[id]
       /\ last'.op = "clear_all" =>
            IF last'.raised
            THEN indexed_ministries' = indexed_ministries /\ table' = table
            ELSE table' = EmptyTable /\ indexed_ministries' = {}]_vars

\* Finance was cleared while rows and the index entry of Education stay.
C12_Witness ==
    /\ last.op = "clear_ministry_documents"
    /\ last.ministry = "Finance"
    /\ ~last.raised
    /\ "Education" \in indexed_ministries
    /\ Cardinality(rows_of_ministry(table, "Education")) > 1

\* C14: a public store operation whose unit of work failed on the final
\* retry attempt raises to its caller.
C14_FinalFailurePropagates ==
    (/\ last.op \in {"add_documents", "search_by_text", "get_ministry_document_count",
                     "clear_ministry_documents", "clear_all"}
     /\ last.failed # {})
    => last.raised

\* C16: a blank query returns nothing, computes no embedding and opens no
\* session; any other query returns at most n_results rows in
\* non-decreasing order of distance, and no row of the ministry that was
\* left out lies closer to the query than a returned one.
C16_SearchOrder ==
    last.op = "search_by_text" =>
      IF last.query = <<>> \/ strip(last.query) = <<>>
      THEN last.returned = <<>> /\ last.sessions = 0 /\ last.embeddings = 0
      ELSE /\ Len(last.returned) <= last.n_results
           /\ \A i, j \in 1..Len(last.returned) :
                 i < j => last.returned[i].distance <= last.returned[j].distance
           /\ \A id \in rows_of_ministry(table, last.ministry) :
                 id \notin {last.returned[i].id : i \in 1..Len(last.returned)} =>
                    \A i \in 1..Len(last.returned) :
                       Distance(table[id].embedding, create_embedding(strip(last.query)))
                          >= last.returned[i].distance

\* A search returned two rows at different distances and left out a row
\* of the ministry.
C16_Witness ==
    /\ last.op = "search_by_text"
    /\ Len(last.returned) = 2
    /\ last.returned[1].distance < last.returned[2].distance
    /\ Cardinality(rows_of_ministry(table, last.ministry)) > 2
    /\ last.sessions = 1

(***************************************************************************)
(* Claims about the generator, checked under SpecLLM.                      *)
(***************************************************************************)
Answered ==
    req.pc \in {"GROUNDED_ANSWER", "IRRELEVANT_ANSWER", "ERROR_ANSWER", "EMPTY_ANSWER"}
ModelAnswered == Answered /\ req.calls = 1

\* C3: through every entry point and on either prompt path, a model
\* response whose text contains "not relevant to", in any letter case, is
\* answered with the canonical refusal sentence.
C3_IrrelevanceRefusal ==
    (/\ ModelAnswered
     /\ req.response.kind = "text"
     /\ Contains(lower(req.response.text), Phrase(<<"not", "relevant", "to">>)))
    => req.output = REFUSAL

\* C4 as stated: an answered request whose prompt construction or model
\* invocation failed returns exactly the fixed error message.
C4_ErrorMessageOnAnyFailure ==
    (Answered /\ (req.promptFailed \/ (req.calls = 1 /\ Raises(req.response))))
    => req.output = ERROR_RESPONSE

\* C4: every entry point returns a string; when the model invocation fails
\* the string is exactly the fixed error message; when prompt construction
\* fails the model is still called, with the fallback prompt, and the
\* request is answered from its response as on the structured path.
C4_ErrorMessageOnModelFailure ==
    Answered =>
      /\ DOMAIN req.output = {"text", "sources"}
      /\ (req.calls = 1 /\ Raises(req.response)) => req.output = ERROR_RESPONSE
      /\ req.promptFailed =>
           /\ req.calls = 1
           /\ req.prompt.kind = "fallback"
           /\ ~Raises(req.response) =>
                req.output = IF Empty(req.response) THEN EMPTY_STRUCTURED
                             ELSE format_parliamentary_response(req.response.text,
                                                                req.context_docs)

C4_Witness ==
    /\ Answered
    /\ req.entry = "generate_response_with_docs"
    /\ req.promptFailed
    /\ req.response.kind = "raise"
    /\ req.output = ERROR_RESPONSE


\* The kinds of output: the fixed error message, after a failure; the
\* refusal sentence, after irrelevance detection on a response that was
\* received; the model's text, stripped, or as it came when formatting
\* failed, with or without citations.
IsErrorAnswer ==
    /\ req.output = ERROR_RESPONSE
    /\ req.calls = 0 \/ Raises(req.response)
IsRefusal ==
    /\ req.output = REFUSAL
    /\ req.calls = 1
    /\ req.response.kind = "text"
    /\ req.response.text # <<>>
    /\ is_irrelevant_response(strip(req.response.text))
IsGroundedAnswer ==
    /\ req.calls = 1
    /\ req.response.kind = "text"
    /\ req.output.text \in {strip(req.response.text), req.response.text}
    /\ req.output # REFUSAL
    /\ req.output # ERROR_RESPONSE
\* The apology for a response that is None or has no text
IsEmptyAnswer ==
    /\ req.output \in {EMPTY_STRUCTURED, EMPTY_SIMPLE}
    /\ req.calls = 1
    /\ Empty(req.response)

ExactlyOne(S) == Cardinality({b \in S : b[2]}) = 1

\* C20 as stated: an answer request ends, with a grounded answer, the
\* refusal sentence or the fixed error message, and with nothing else.
C20_ThreeOutcomes ==
    Answered =>
       ExactlyOne({<<"grounded", IsGroundedAnswer>>, <<"refusal", IsRefusal>>,
                   <<"error", IsErrorAnswer>>})

\* C20: an answer request ends, with exactly one of four outcomes: a
\* grounded answer, the refusal sentence, the fixed error message, or the
\* apology for a model response that is None or has no text; the refusal
\* comes only from irrelevance detection on a received response.
C20_FourOutcomes ==
    /\ [](Answered =>
            /\ ExactlyOne({<<"grounded", IsGroundedAnswer>>, <<"refusal", IsRefusal>>,
                           <<"error", IsErrorAnswer>>, <<"empty", IsEmptyAnswer>>})
            /\ req.output = REFUSAL => IsRefusal
            /\ (req.pc = "EMPTY_ANSWER") <=> IsEmptyAnswer)
    /\ <>Answered

\* The model returned None on the simple path: the apology was returned.
C20_Witness ==
    /\ req.pc = "EMPTY_ANSWER"
    /\ req.entry = "generate_answer"
    /\ req.response.kind = "none"
    /\ req.output = EMPTY_SIMPLE

\* The context the request came with holds at least one document.
ContextExists ==
    IF req.entry = "generate_answer"
    THEN parse_context_string(req.context.str) # <<>>
    ELSE req.context.list # <<>>

\* C21 as stated: through every entry point the structured prompt is used
\* if and only if a context document exists, the simple prompt otherwise,
\* and one model call is made.
C21_PromptByContext ==
    Answered =>
      /\ req.calls = 1
      /\ (req.prompt.kind = "structured") <=> ContextExists
      /\ ~ContextExists => req.prompt = simple_prompt("q", req.ministry)

\* C21: generate_answer uses the structured prompt if and only if its
\* context string parses to at least one document, and the simple prompt,
\* built from the ministry and the question only, otherwise; the entry
\* points that take a document list never use the simple prompt, an empty
\* list included: they use the structured prompt, or its fallback when
\* building it raises.  A request makes at most one model call, and
\* exactly one unless generate_response_sync fails before it dispatches.
C21_PromptByEntryPoint ==
    Answered =>
      /\ req.calls <= 1
      /\ req.calls = 0 => (req.entry = "generate_response_sync" /\ req.output = ERROR_RESPONSE)
      /\ (req.calls = 1 /\ req.entry = "generate_answer") =>
           /\ (req.prompt.kind = "structured") <=> ContextExists
           /\ ~ContextExists => req.prompt = simple_prompt("q", req.ministry)
           /\ req.prompt.kind # "fallback"
      /\ (req.calls = 1 /\ req.entry # "generate_answer") =>
           /\ req.prompt.kind \in {"structured", "fallback"}
           /\ (req.prompt.kind = "fallback") <=>
                (\E i \in 1..Len(Top(req.context.list, 5)) : ~req.context.list[i].dict)

\* generate_response_with_docs answered a request with an empty document
\* list from the structured prompt.
C21_Witness ==
    /\ Answered
    /\ req.entry = "generate_response_with_docs"
    /\ req.context.list = <<>>
    /\ req.prompt.kind = "structured"
    /\ req.prompt.sources = 0
    /\ req.calls = 1

\* The failure classes that are transient transactional failures: the
\* first two except clauses; the third takes every other exception.
Transient == {"PendingRollbackError", "SQLAlchemyError"}

\* C25 as stated: after a failure that is not transient the operation
\* ends at once: no wait, no further execution of the unit of work.
C25_RetryOnlyTransient ==
    [][(sess.pc = "backoff" /\ sess.error \notin Transient)
         => (sess'.exit = "raise" /\ sess'.waits = sess.waits)]_vars

\* C25: the retry loop handles a failure of every class alike: while an
\* attempt is left it waits 2 ^ attempt and runs the unit of work again,
\* and it raises after the last attempt, whether the failure was a
\* transient transactional one or any other exception.
C25_RetryAnyFailure ==
    [][sess.pc = "backoff" =>
         \A error \in Errors :
            sess.error = error =>
              IF sess.attempt < max_retries - 1
              THEN /\ sess'.exit = "continue"
                   /\ sess'.waits = Append(sess.waits, 2 ^ sess.attempt)
              ELSE /\ sess'.exit = "raise"
                   /\ sess'.waits = sess.waits]_vars

\* The second attempt failed with an exception that is no transactional
\* failure, and the loop has waited and goes on to a third.
C25_Witness ==
    /\ sess.pc = "finally"
    /\ sess.attempt = 1
    /\ sess.executions = 2
    /\ sess.error = "Exception"
    /\ sess.exit = "continue"
    /\ sess.waits = <<1, 2>>

(***************************************************************************)
(* Claims about the executor, checked under SpecPool.                      *)
(***************************************************************************)
Queued == {pool.queue[i] : i \in 1..Len(pool.queue)}
Finished == {d.call : d \in pool.done}

\* C23: at most max_workers = 2 calls run at any moment; a submitted call
\* is waiting, running or finished, never lost; a waiting call starts
\* only when fewer than 2 calls run; and every submitted call finishes,
\* running calls coming to an end.
C23_BoundedPool ==
    /\ [](Cardinality(pool.running) <= max_workers)
    /\ [](/\ pool.submitted = Queued \cup pool.running \cup Finished
          /\ Cardinality(pool.submitted)
               = Len(pool.queue) + Cardinality(pool.running) + Cardinality(pool.done))
    /\ [][pool'.running \ pool.running # {} => Cardinality(pool.running) < max_workers]_vars
    /\ \A c \in Calls : (c \in pool.submitted) ~> (c \in Finished)

\* Two calls run and two more wait in the queue.
C23_Witness ==
    /\ Cardinality(pool.running) = max_workers
    /\ Len(pool.queue) = 2
    /\ pool.done = {}

(***************************************************************************)
(* Claims about the segmenter, checked under SpecChunk.                    *)
(***************************************************************************)
Segmented == seg.pc \in {"chunked", "processed"}

RECURSIVE NonEmptyStripped(_)
NonEmptyStripped(pieces) ==
    IF pieces = <<>> THEN <<>>
    ELSE (IF strip(Head(pieces)) # <<>> THEN <<strip(Head(pieces))>> ELSE <<>>)
         \o NonEmptyStripped(Tail(pieces))

\* The non-empty sentences of a text, in order
SentencesOf(text) == NonEmptyStripped(re_split(text, <<>>))

\* " ".join(ss)
RECURSIVE Join(_)
Join(ss) ==
    IF ss = <<>> THEN <<>>
    ELSE IF Len(ss) = 1 THEN ss[1]
    ELSE ss[1] \o <<WS>> \o Join(Tail(ss))

IsSuffix(s, t) == Len(s) <= Len(t) /\ SubSeq(t, Len(t) - Len(s) + 1, Len(t)) = s

\* The chunk holds the one sentence s, after at most the overlap.
HoldsOnly(chunk, s, overlap) ==
    \/ chunk = s
    \/ /\ IsSuffix(<<WS>> \o s, chunk)
       /\ Len(chunk) - Len(s) - 1 \in 1..overlap

\* The chunk holds a single sentence that is longer than chunk_size.
Oversized(chunk) ==
    \E j \in 1..Len(SentencesOf(seg.text)) :
       /\ Len(SentencesOf(seg.text)[j]) > seg.chunk_size
       /\ HoldsOnly(chunk, SentencesOf(seg.text)[j], seg.overlap)

\* C5 as stated: every chunk is at most max_chars + overlap_chars long,
\* unless it holds a single sentence longer than max_chars.
C5_ChunkLengthBound ==
    Segmented =>
      \A k \in 1..Len(seg.chunks) :
         Len(seg.chunks[k]) <= seg.chunk_size + seg.overlap \/ Oversized(seg.chunks[k])

\* C5: every chunk is at most max_chars + overlap_chars + 1 long (the
\* space that joins two parts is not counted by the loop), unless it holds
\* a single sentence longer than max_chars.
C5_ChunkLengthBoundPlusOne ==
    Segmented =>
      \A k \in 1..Len(seg.chunks) :
         Len(seg.chunks[k]) <= seg.chunk_size + seg.overlap + 1 \/ Oversized(seg.chunks[k])

C5_Witness ==
    /\ Segmented
    /\ seg.overlap > 0
    /\ \E k \in 1..Len(seg.chunks) :
         /\ Len(seg.chunks[k]) = seg.chunk_size + seg.overlap + 1
         /\ ~Oversized(seg.chunks[k])

\* The chunks are the sentences, in order and each once: every chunk is
\* the next sentences joined by spaces, after the first chunk possibly
\* preceded by an overlap prefix, which is an end of the chunk before it
\* no longer than the overlap.
RECURSIVE Rebuilds(_, _, _, _)
Rebuilds(chunks, sentences, prev, overlap) ==
    IF chunks = <<>> THEN sentences = <<>>
    ELSE \E n \in 1..Len(sentences) :
           LET body == Join(SubSeq(sentences, 1, n))
               c == Head(chunks)
               prefix == SubSeq(c, 1, Len(c) - Len(body) - 1)
           IN /\ \/ c = body
                 \/ /\ prev # <<>>
                    /\ IsSuffix(<<WS>> \o body, c)
                    /\ prefix # <<>>
                    /\ Len(prefix) <= overlap
                    /\ IsSuffix(prefix, prev)
              /\ Rebuilds(Tail(chunks), SubSeq(sentences, n + 1, Len(sentences)), c, overlap)

\* C6: chunk_text drops no content: the chunks, their overlap prefixes
\* ignored, are the non-empty sentences of the text in their order, each
\* whole and exactly once.
C6_NoContentLoss ==
    Segmented => Rebuilds(seg.chunks, SentencesOf(seg.text), <<>>, seg.overlap)

C6_Witness ==
    /\ Segmented
    /\ seg.overlap > 0
    /\ Len(seg.chunks) >= 2
    /\ Len(SentencesOf(seg.text)) >= 2
    /\ SentencesOf(seg.text)[1] # SentencesOf(seg.text)[2]
    /\ \A n \in 1..Len(SentencesOf(seg.text)) :
         seg.chunks[2] # Join(SubSeq(SentencesOf(seg.text), n, Len(SentencesOf(seg.text))))


\* The sentences of the text that are longer than chunk_size
LongSentences ==
    {j \in 1..Len(SentencesOf(seg.text)) : Len(SentencesOf(seg.text)[j]) > seg.chunk_size}

\* C22 as stated: a sentence longer than max_chars is a chunk of its own,
\* with no other text in it; empty input gives no chunk.
C22_OversizedOwnChunk ==
    Segmented =>
      /\ seg.text = <<>> => seg.chunks = <<>>
      /\ \A j \in LongSentences :
           \E k \in 1..Len(seg.chunks) : seg.chunks[k] = SentencesOf(seg.text)[j]

\* C22: a sentence longer than max_chars is never split and shares its
\* chunk with no other sentence: its chunk is the sentence, preceded at
\* most by the overlap, which is an end of the chunk before it of at most
\* overlap_chars characters, and a space; with overlap_chars = 0 the chunk
\* is the sentence.  Empty input gives no chunk.
C22_OversizedAfterOverlap ==
    Segmented =>
      /\ seg.text = <<>> => seg.chunks = <<>>
      /\ \A j \in LongSentences :
           \E k \in 1..Len(seg.chunks) :
              LET s == SentencesOf(seg.text)[j]
                  c == seg.chunks[k]
              IN /\ HoldsOnly(c, s, seg.overlap)
                 /\ c # s =>
                      /\ k > 1
                      /\ IsSuffix(SubSeq(c, 1, Len(c) - Len(s) - 1), seg.chunks[k - 1])

\* A sentence longer than chunk_size came after a chunk longer than the
\* overlap: its chunk begins with the overlap.
C22_Witness ==
    /\ Segmented
    /\ seg.overlap > 0
    /\ \E j \in LongSentences :
         /\ \A k \in 1..Len(seg.chunks) : seg.chunks[k] # SentencesOf(seg.text)[j]
         /\ \E k \in 2..Len(seg.chunks) :
              HoldsOnly(seg.chunks[k], SentencesOf(seg.text)[j], seg.overlap)

\* The last n characters of a chunk, or all of it
Ending(chunk, n) == SubSeq(chunk, Max(1, Len(chunk) - n + 1), Len(chunk))

\* The chunks are the sentences in order, and every chunk after the first
\* begins with the overlap taken from the chunk before it: always, or
\* (always = FALSE) when that chunk is longer than the overlap, a chunk
\* after a shorter one beginning with its first sentence or with the whole
\* of the chunk before it.
RECURSIVE Seeded(_, _, _, _, _)
Seeded(chunks, sentences, prev, overlap, always) ==
    IF chunks = <<>> THEN sentences = <<>>
    ELSE \E n \in 1..Len(sentences) :
           LET body == Join(SubSeq(sentences, 1, n))
               c == Head(chunks)
               seed == lstrip(Ending(prev, overlap)) \o <<WS>> \o body
           IN /\ IF prev = <<>> THEN c = body
                 ELSE IF always \/ Len(prev) > overlap THEN c = seed
                 ELSE c \in {body, prev \o <<WS>> \o body}
              /\ Seeded(Tail(chunks), SubSeq(sentences, n + 1, Len(sentences)), c,
                        overlap, always)

\* C24 as stated: with overlap_chars > 0 every chunk after the first
\* starts with the last overlap_chars characters of the chunk emitted
\* before it, followed by the new sentence.
C24_OverlapAlways ==
    (Segmented /\ seg.overlap > 0) =>
       Seeded(seg.chunks, SentencesOf(seg.text), <<>>, seg.overlap, TRUE)

\* C24: with overlap_chars > 0, a chunk emitted because the next sentence
\* does not fit seeds the next chunk with its last overlap_chars
\* characters (leading whitespace trimmed), a space and the new sentence
\* when it is longer than overlap_chars; after a chunk that is not longer
\* the next chunk starts with the new sentence, with no overlap, or with
\* the whole of that chunk.
C24_OverlapWhenLonger ==
    (Segmented /\ seg.overlap > 0) =>
       Seeded(seg.chunks, SentencesOf(seg.text), <<>>, seg.overlap, FALSE)

\* A chunk longer than the overlap was emitted and the next chunk begins
\* with its last characters, which are not the whole of it.
C24_Witness ==
    /\ Segmented
    /\ seg.overlap > 0
    /\ \E k \in 1..(Len(seg.chunks) - 1) :
         /\ Len(seg.chunks[k]) > seg.overlap
         /\ \E j \in 1..Len(SentencesOf(seg.text)) :
              seg.chunks[k + 1] = Ending(seg.chunks[k], seg.overlap) \o <<WS>>
                                    \o SentencesOf(seg.text)[j]


(***************************************************************************)
(* Claims about the retry loop, checked under SpecSession.                 *)
(***************************************************************************)
SessionOver == sess.pc \in {"returned", "raised"}

RetryBounds ==
    /\ sess.executions <= max_retries
    /\ sess.attempt <= max_retries - 1
    /\ sess.commits <= 1
    /\ Len(sess.waits) <= 2
    /\ \A i \in 1..Len(sess.waits) : sess.waits[i] = 2 ^ (i - 1)
    /\ sess.pc = "returned" => sess.commits = 1 /\ Len(sess.waits) = sess.attempt
    /\ sess.pc = "raised" =>
          /\ sess.commits = 0
          /\ sess.attempt = max_retries - 1
          /\ sess.waits = <<1, 2>>

\* C13: a run of _safe_session_operation ends, after at most 3 executions
\* of the unit of work; it returns at the first attempt that commits; it
\* waits 1 and then 2 time units after the first and second failure, and
\* after the third failure it raises with no wait and no further attempt.
C13_RetryTerminates == []RetryBounds /\ <>SessionOver

\* Three attempts ran the unit of work and failed.
C13_Witness ==
    /\ sess.pc = "raised"
    /\ sess.executions = max_retries
    /\ sess.waits = <<1, 2>>

Files == {Questions[n] : n \in 1..Len(Questions)}
AllDone == \A p \in Procs : ing.procs[p].pc = "done"
FoundBefore(f) == \E r \in ing.before : r.source = f

\* C17: no failure at a step of one source leaves the loop: a process
\* never raises out of ingest, has gone through every question before the
\* one it is at, and has gone through all of them when it is done.
C17_FailureIsolation ==
    \A p \in Procs :
       /\ ing.procs[p].pc # "raised"
       /\ 1..(ing.procs[p].pos - 1) \subseteq ing.procs[p].visited
       /\ ing.procs[p].pc = "done" => ing.procs[p].visited = 1..Len(Questions)

\* A process met a failing de-duplication check at the first question and
\* a failing upload and store write at the second, and finished.
C17_Witness ==
    \E p \in Procs :
       /\ ing.procs[p].pc = "done"
       /\ ing.procs[p].faults = {<<1, "is_pdf_in_db">>, <<2, "upload_bytes">>, <<2, "write">>}
       /\ ing.procs[p].ingested_files = 1

\* C18: a file that the table held when the run began is skipped whole:
\* no process fetches, extracts, uploads or writes anything for it, and
\* its rows stay as they were; so a run over files all ingested before
\* leaves the table as it was.
C18_DedupSkips ==
    /\ \A f \in Files :
          FoundBefore(f) =>
             /\ {r \in ing.rows : r.source = f} = {r \in ing.before : r.source = f}
             /\ \A p \in Procs : \A w \in ing.procs[p].work : w[1] # f
    /\ (\A f \in Files : FoundBefore(f)) => ing.rows = ing.before

\* Both processes are done: the file ingested before was skipped, the
\* other one was ingested.
C18_Witness ==
    /\ AllDone
    /\ FoundBefore("q1.pdf")
    /\ ~FoundBefore("q2.pdf")
    /\ \E r \in ing.rows : r.source = "q2.pdf"
    /\ \E p \in Procs : ing.procs[p].visited = {1, 2} /\ ing.procs[p].ingested_files = 1

\* C19: whatever the interleaving of two processes ingesting the same
\* files, the table never holds two rows of one chunk id, every row is
\* whole from one writer, and when both are done and nothing but their own
\* conflicts failed, every chunk of every file has its one row.
C19_LastWriteWins ==
    /\ \A r1, r2 \in ing.rows : r1.id = r2.id => r1 = r2
    /\ \A r \in ing.rows : r.text_by = r.embedding_by /\ r.text_by \in Procs \cup {0}
    /\ (AllDone /\ \A p \in Procs : ing.procs[p].faults = {}) =>
          \A f \in Files : \A i \in 0..(ChunksPerFile - 1) :
             Cardinality({r \in ing.rows : r.id = chunk_id(f, i)}) = 1

\* Both processes wrote q1.pdf: one had its insert refused, tried again
\* and wrote last.
C19_Witness ==
    /\ AllDone
    /\ ing.before = {}
    /\ \E p \in Procs :
          /\ <<"q1.pdf", "conflict">> \in ing.procs[p].work
          /\ \A r \in ing.rows : r.source = "q1.pdf" => r.text_by = p
    /\ \A q \in Procs : ing.procs[q].ingested_files = 2

Whole(f) == \A i \in 0..(ing.total_chunks - 1) : \E r \in ing.rows : r.id = chunk_id(f, i)
Partial(f) == (\E r \in ing.rows : r.source = f) /\ ~Whole(f)

\* The de-duplication check of process p skips file f in this step.
DedupSkip(p, f) ==
    /\ ing.procs[p].pc = "is_pdf_in_db"
    /\ Questions[ing.procs[p].pos] = f
    /\ ing'.procs[p].pos = ing.procs[p].pos + 1
    /\ ing'.procs[p].faults = ing.procs[p].faults

AtCode(code) == mon.pc = "for" /\ MINISTRY_CODES[mon.n] = code
Checked(code) == AtCode(code) /\ mon'.n = mon.n + 1
Triggered(code) == Checked(code) /\ mon'.ingest[code].result \in {"ok", "failed"}
Differs(code) ==
    mon.current_state[code].hash # calc_hash(fetch_ministry_digest(mon.site[code]))

\* Ingestion is triggered for a code exactly when the fresh digest is not
\* the stored one.
TriggerOnChange ==
    [][\A code \in Codes : Checked(code) => (Triggered(code) <=> Differs(code))]_vars

\* The digest in the state file changes only after an ingestion that
\* succeeded.
AdvanceOnSuccess ==
    [][\A code \in Codes :
          mon'.file[code] # mon.file[code] => mon.ingest[code].result = "ok"]_vars

\* After a failed ingestion the next check over the same PDF list
\* triggers ingestion again.
RetriggerAfterFailure ==
    [][\A code \in Codes :
          (/\ Checked(code)
           /\ mon.ingest[code].result = "failed"
           /\ mon.ingest[code].pdfs = fetch_ministry_digest(mon.site[code]))
          => Triggered(code)]_vars

\* C30: the monitor triggers ingestion for a ministry exactly when its
\* fresh digest differs from the stored one, advances the stored digest
\* only when that ingestion succeeded, and after a failed ingestion
\* triggers it again at the next run over the same PDF list.
C30_DigestAdvancesOnSuccess ==
    /\ TriggerOnChange
    /\ AdvanceOnSuccess
    /\ RetriggerAfterFailure

====
